---- MODULE Spec2Model ----
(***************************************************************************)
(* Verification model of CoreKit's browser widgets.                        *)
(*                                                                         *)
(* Part I  - the watermark facade, packages/watermark.js/src/index.js:     *)
(*           class Watermark and the module singleton watermarkInstance,   *)
(*           with the DOM, the MutationObserver record queue, the          *)
(*           ResizeObserver and the debounce timer it drives.              *)
(* Part II - the scroll observer, packages/scroll-observer/src/index.ts:   *)
(*           VisibilityObserver and ScrollObserver.                        *)
(* Part III - the focus computation of the scroll observer: targetRatio,   *)
(*           listenComponents and _handleScroll with their geometry.       *)
(* Part IV - the layout engine, packages/watermark/src/core/layout.ts:     *)
(*           normalize and measure.                                        *)
(* Part V  - the image loader, packages/watermark/src/utils/image-loader.ts*)
(* Part VI - the canvas drawer, CanvasDrawer.generate and _drawRecursive.   *)
(* Part VII - the tamper detection of ObserverGuard (core/guard.ts) and of  *)
(*   the facade's startMonitor, on batches of DOM changes.                 *)
(***************************************************************************)
EXTENDS Integers, Sequences, FiniteSets, TLC

VARIABLES
    \* ---- Watermark instance fields (index.js:16-32) and the singleton
    instance,        \* module-level `instance` is non-null
    options,         \* this.options (id, zIndex, monitor)
    container,       \* this.container
    watermarkDom,    \* this.watermarkDom (node identity, NoNode for null)
    observer,        \* this.observer: target of the connected MutationObserver
    resizeObserver,  \* this.resizeObserver: target of the connected ResizeObserver
    debounceRender,  \* this._debounceRender (timer handle, possibly expired)
    \* ---- browser state the facade acts on
    dom,             \* overlay elements attached to the document
    moQueue,         \* mutation records queued for this.observer
    timers,          \* pending setTimeout handles
    \* ---- observation of the last operation
    lastOp,          \* name of the last operation or event
    prevDestroy,     \* the operation before the last was a destroy() that returned
    thrown,          \* the last operation threw
    errorLogged,     \* the last operation called console.error
    destroyed,       \* destroy() returned and no apply() was called since
    staleTimer,      \* a pending timer was created before the last destroy()
    clearedTimer,    \* the last operation cleared a pending timer
    \* ---- VisibilityObserver fields (index.ts:59-64)
    selector,        \* constructed with a selector string (this.selector set)
    voEl,            \* VisibilityObserver.el is set
    io,              \* this.io is a connected IntersectionObserver
    mo,              \* this.mo is a connected MutationObserver
    initialized,     \* this.initialized
    \* ---- ScrollObserver fields (index.ts:147-151)
    soEl,            \* ScrollObserver.el is set
    cleanupListener, \* this._cleanupListener is set
    rafId,           \* this._rafId (frame handle, possibly expired; 0 for null)
    \* ---- browser state the scroll observer acts on
    elInDom,         \* the container element is in the document
    inView,          \* the container intersects the viewport
    nChildren,       \* number of elements matching options.selectors
    ioQueue,         \* intersection entries queued for this.io
    moPending,       \* mutation records are queued for this.mo
    listening,       \* the scroll and resize listeners are attached
    frames,          \* pending requestAnimationFrame handles
    \* ---- observation
    initCalls,       \* invocations of the user's onInit so far
    initRuns,        \* runs of ScrollObserver._init so far
    centerCalls,     \* invocations of onScrollCenter in the last step
    cancelled,       \* pending frames the last step cancelled
    leftAfterInit,   \* the container left the viewport after the initialization
    reentered,       \* ... and entered it again
    unobserved,      \* unobserve() has been called
    soLastOp,        \* name of the last scroll-observer operation or event
    \* ---- the focus computation of ScrollObserver (index.ts:177-247)
    focusOptions,    \* this.options: layered, startIndex, centerCoordinate
    containerRect,   \* this.el.getBoundingClientRect(): top and height
    childEls,        \* the container's children in document order
    scrollTop,       \* scroll offset of the container
    targetLineY,     \* focus line the last recomputation computed
    scrollCenter,    \* arguments of the onScrollCenter calls of the last step
    focusOp,         \* name of the last step of the focus computation
    \* ---- the layout engine (layout.ts:19-136)
    content,         \* the content normalize is given
    inheritedGap,    \* normalize's inheritedGap argument
    globalOptions,   \* measure's globalOptions argument
    ratio,           \* measure's ratio argument (device pixel ratio)
    layoutTree,      \* what normalize returned
    measured,        \* what measure returned for layoutTree
    layoutOp,        \* name of the last step of the layout engine
    \* ---- the image loader (image-loader.ts:1-22) and the images it loads
    cache,           \* this.cache: the image stored for each key, NoImage for none
    loading,         \* images whose fetch is under way, each with its src
    images,          \* number of Image objects created so far
    resolvedTo,      \* for each key, the images the load(key) promises resolved to
    rejected,        \* the images whose load() promise rejected, each with its src
    lastLoad,        \* what the last load() call did
    loaderOp,        \* name of the last step of the image loader
    \* ---- the canvas drawer (part_000:4-81)
    genArgs,         \* generate's arguments: layoutTree, options, ratio
    generated,       \* what the last generate() computed, drew and returned
    drawerOp,        \* name of the last step of the canvas drawer
    \* ---- the tamper detection of the two observer callbacks (guard.ts:16-31,
    \* index.js:157-189) on one container
    overlayIn,       \* the overlay element is a child of the container
    guardQueue,      \* changes made since ObserverGuard's callback last ran, with their records
    facadeQueue,     \* the same for the facade's observer, which filters attributes
    delivery,        \* the last callback run: its batch of changes and whether it reacted
    guardOp          \* name of the last step of the tamper detection

wmVars == <<instance, options, container, watermarkDom, observer, resizeObserver,
            debounceRender, dom, moQueue, timers, lastOp, prevDestroy, thrown,
            errorLogged, destroyed, staleTimer,
            clearedTimer>>

soVars == <<selector, voEl, io, mo, initialized, soEl, cleanupListener, rafId,
            elInDom, inView, nChildren, ioQueue, moPending, listening, frames,
            initCalls, initRuns, centerCalls, cancelled, leftAfterInit, reentered,
            unobserved, soLastOp>>

focusVars == <<focusOptions, containerRect, childEls, scrollTop, targetLineY,
               scrollCenter, focusOp>>

layoutVars == <<content, inheritedGap, globalOptions, ratio, layoutTree, measured,
                layoutOp>>

loaderVars == <<cache, loading, images, resolvedTo, rejected, lastLoad, loaderOp>>

\* the variables of the parts after Part II
drawerVars == <<genArgs, generated, drawerOp>>

guardVars == <<overlayIn, guardQueue, facadeQueue, delivery, guardOp>>

auxVars == <<focusVars, layoutVars, loaderVars, drawerVars, guardVars>>

vars == <<wmVars, soVars, auxVars>>

(***************************************************************************)
(* Bounds                                                                  *)
(***************************************************************************)
MaxNodes == 2
MaxTimers == 2
MaxEntries == 3
MaxChildren == 2
MaxFrames == 2
MaxItems == 2
MaxPieces == 3
MaxGroupItems == 2
MaxImages == 3
MaxBatch == 2

(***************************************************************************)
(* Part I: the watermark facade                                            *)
(***************************************************************************)
NULL == "null"
NoNode == 0
NoTimer == 0

\* document.body and an element inside it that the selector '#a' matches
Containers == {"body", "a"}
NodeIds == 1..MaxNodes
TimerIds == 1..MaxTimers

DefaultOptions == [id |-> "watermark-layer", zIndex |-> 9999, monitor |-> TRUE]

\* The option objects apply() is called with: `given` is the set of own
\* properties among el, id and monitor (the other option fields go through the
\* same spread as id and are left at their defaults here). A field that is not
\* given holds a fixed placeholder, so that each object is listed once.
Fields == {"el", "id", "monitor"}

ApplyArgs ==
    {o \in [given : SUBSET Fields, el : {"a", "missing"}, id : {"wm2"},
            monitor : BOOLEAN] :
        /\ ("el" \notin o.given => o.el = "a")
        /\ ("monitor" \notin o.given => o.monitor = TRUE)}

\* { ...base, ...opts } restricted to the fields render() reads
Spread(base, o) ==
    [id      |-> IF "id" \in o.given THEN o.id ELSE base.id,
     zIndex  |-> base.zIndex,
     monitor |-> IF "monitor" \in o.given THEN o.monitor ELSE base.monitor]

\* document.querySelector(selector) for the mount target
ResolveSelector(sel) == IF sel \in Containers THEN sel ELSE NULL

\* document order of the overlays' parents: what is inside a precedes what is
\* appended to body
Rank(c) == IF c = "a" THEN 1 ELSE 2

\* a node whose parent is p lies in the subtree of c
InSubtree(p, c) == c = "body" \/ p = c

\* container.querySelector('#' + id): the first match in document order, as a
\* set of at most one node
QuerySelector(d, c, i) ==
    LET M == {n \in d : n.id = i /\ InSubtree(n.parent, c)}
    IN {n \in M : \A m \in M : Rank(n.parent) <= Rank(m.parent)}

\* container.contains(node)
Contains(d, c, nid) == \E n \in d : n.nid = nid /\ InSubtree(n.parent, c)

MinOf(S) == CHOOSE x \in S : \A y \in S : x <= y

\* The facade's fields and the browser state as one value, so that the
\* methods compose the way the calls do.
Cur ==
    [options |-> options, container |-> container, watermarkDom |-> watermarkDom,
     observer |-> observer, resizeObserver |-> resizeObserver,
     debounceRender |-> debounceRender, dom |-> dom, moQueue |-> moQueue,
     timers |-> timers, thrown |-> FALSE, errorLogged |-> FALSE, stuck |-> FALSE,
     clearedTimer |-> FALSE]

Throw(s) == [s EXCEPT !.thrown = TRUE]

\* what a connected MutationObserver on `target` records of a change under parent p
Recorded(s, p, rec) ==
    IF s.observer # NULL /\ InSubtree(p, s.observer)
    THEN [s EXCEPT !.moQueue = @ \cup {rec}]
    ELSE s

\* stopMonitor(): disconnect() drops the records not yet delivered
StopMonitor(s) ==
    IF s.observer # NULL
    THEN [s EXCEPT !.observer = NULL, !.moQueue = {}]
    ELSE s

\* startMonitor(): a new MutationObserver on this.container unless one exists
StartMonitor(s) ==
    IF s.observer # NULL THEN s ELSE [s EXCEPT !.observer = s.container]

\* startResizeObserver(): a new ResizeObserver on this.container unless one exists
StartResizeObserver(s) ==
    IF s.resizeObserver # NULL THEN s ELSE [s EXCEPT !.resizeObserver = s.container]

\* a render() that leaves the observer connected while it rewrites the
\* document: the observer records the removal and the insertion
RenderUnsuspended(s) ==
    IF s.container = NULL THEN Throw(s)
    ELSE LET ex == QuerySelector(s.dom, s.container, s.options.id)
         IN IF \E n \in ex : n.parent # s.container THEN Throw(s)
            ELSE LET d2 == s.dom \ ex
                     free == NodeIds \ {n.nid : n \in d2}
                 IN IF free = {} THEN [s EXCEPT !.stuck = TRUE]
                    ELSE LET nid == MinOf(free)
                             node == [nid |-> nid, parent |-> s.container,
                                      id |-> s.options.id,
                                      pointerEvents |-> "none",
                                      zIndex |-> s.options.zIndex]
                             s2 == IF ex = {} THEN s
                                   ELSE Recorded(s, s.container,
                                                 [type |-> "childList",
                                                  node |-> (CHOOSE n \in ex : TRUE).nid])
                             s3 == Recorded([s2 EXCEPT !.dom = d2 \cup {node},
                                                       !.watermarkDom = nid],
                                            s.container,
                                            [type |-> "childList", node |-> NoNode])
                         IN IF s3.options.monitor THEN StartMonitor(s3) ELSE s3

\* render(): stop the observer, drop the element the id selects, create and
\* append a new one, restart the observer when options.monitor.
\* createBase64() runs first and touches neither the instance nor the document.
\* A null container makes container.querySelector throw; an element the
\* selector finds deeper than a child makes container.removeChild throw.
Render(s) ==
    LET s1 == StopMonitor(s)
    IN IF s1.container = NULL THEN Throw(s1)
       ELSE LET ex == QuerySelector(s1.dom, s1.container, s1.options.id)
            IN IF \E n \in ex : n.parent # s1.container THEN Throw(s1)
               ELSE LET d2 == s1.dom \ ex
                        free == NodeIds \ {n.nid : n \in d2}
                    IN IF free = {} THEN [s1 EXCEPT !.stuck = TRUE]
                       ELSE LET nid == MinOf(free)
                                node == [nid |-> nid, parent |-> s1.container,
                                         id |-> s1.options.id,
                                         pointerEvents |-> "none",
                                         zIndex |-> s1.options.zIndex]
                                s3 == [s1 EXCEPT !.dom = d2 \cup {node},
                                                 !.watermarkDom = nid]
                            IN IF s3.options.monitor THEN StartMonitor(s3) ELSE s3

\* apply(options) without the `if (!this.container) return` guard
ApplyBodyNoTargetCheck(s, o) ==
    LET s1 == [s EXCEPT !.options = Spread(s.options, o)]
        s2 == [s1 EXCEPT !.container =
                  IF "el" \in o.given THEN ResolveSelector(o.el) ELSE "body"]
        s3 == Render(s2)
    IN IF s3.thrown \/ s3.stuck THEN s3
       ELSE LET s4 == IF s3.options.monitor THEN StartMonitor(s3) ELSE s3
            IN StartResizeObserver(s4)

\* apply(options): merge, resolve the target, render, start the observers.
\* (Step 3, position: relative on a static target, changes the target's style
\* only and is left out.)
ApplyBody(s, o) ==
    LET s1 == [s EXCEPT !.options = Spread(s.options, o)]
        s2 == [s1 EXCEPT !.container =
                  IF "el" \in o.given THEN ResolveSelector(o.el) ELSE "body"]
    IN IF s2.container = NULL
       THEN [s2 EXCEPT !.errorLogged = TRUE]
       ELSE LET s3 == Render(s2)
            IN IF s3.thrown \/ s3.stuck THEN s3
               ELSE LET s4 == IF s3.options.monitor THEN StartMonitor(s3) ELSE s3
                    IN StartResizeObserver(s4)

\* destroy() without the `this.watermarkDom && container.contains(...)` test
\* and without the final `this.watermarkDom = null`
DestroyBodyUnguarded(s) ==
    LET s1 == StopMonitor(s)
        s2 == [s1 EXCEPT !.resizeObserver = NULL]
    IN IF s2.container = NULL THEN Throw(s2)
       ELSE IF \E n \in s2.dom : n.nid = s2.watermarkDom /\ n.parent = s2.container
            THEN [s2 EXCEPT !.dom = {n \in s2.dom : n.nid # s2.watermarkDom}]
            ELSE Throw(s2)

\* destroy()
DestroyBody(s) ==
    LET s1 == StopMonitor(s)
        s2 == [s1 EXCEPT !.resizeObserver = NULL]
    IN IF s2.watermarkDom = NoNode THEN s2
       ELSE IF s2.container = NULL THEN Throw(s2)
       ELSE IF ~Contains(s2.dom, s2.container, s2.watermarkDom)
            THEN [s2 EXCEPT !.watermarkDom = NoNode]
       ELSE IF \E n \in s2.dom : n.nid = s2.watermarkDom /\ n.parent # s2.container
            THEN Throw(s2)
       ELSE [s2 EXCEPT !.dom = {n \in s2.dom : n.nid # s2.watermarkDom},
                       !.watermarkDom = NoNode]

\* the MutationObserver callback of startMonitor(), on the queued records
NeedRender(records, wd) ==
    \E r \in records :
        \/ r.type = "childList" /\ r.node = wd
        \/ r.type = "attributes" /\ r.node = wd

\* a debounce that starts the new timer without clearing the old one
DebounceNoClear(s) ==
    LET free == TimerIds \ (s.timers \cup {s.debounceRender})
    IN IF free = {} THEN [s EXCEPT !.stuck = TRUE]
       ELSE [s EXCEPT !.timers = s.timers \cup {MinOf(free)},
                      !.debounceRender = MinOf(free)]

\* if (needRender) { clearTimeout(old); this._debounceRender = setTimeout(...) }
Debounce(s) ==
    LET cleared == s.timers \ {s.debounceRender}
        free == TimerIds \ (cleared \cup {s.debounceRender})
    IN IF free = {} THEN [s EXCEPT !.stuck = TRUE]
       ELSE [s EXCEPT !.timers = cleared \cup {MinOf(free)},
                      !.debounceRender = MinOf(free),
                      !.clearedTimer = s.debounceRender \in s.timers]

MutationCallbackBody(s) ==
    LET s1 == [s EXCEPT !.moQueue = {}]
    IN IF NeedRender(s.moQueue, s.watermarkDom) THEN Debounce(s1) ELSE s1

\* the ResizeObserver callback of startResizeObserver()
ResizeCallbackBody(s) ==
    IF s.container = NULL THEN Throw(s)
    ELSE IF QuerySelector(s.dom, s.container, s.options.id) = {}
         THEN Render(s)
         ELSE s

Commit(s) ==
    /\ ~s.stuck
    /\ options' = s.options
    /\ container' = s.container
    /\ watermarkDom' = s.watermarkDom
    /\ observer' = s.observer
    /\ resizeObserver' = s.resizeObserver
    /\ debounceRender' = s.debounceRender
    /\ dom' = s.dom
    /\ moQueue' = s.moQueue
    /\ timers' = s.timers
    /\ thrown' = s.thrown
    /\ errorLogged' = s.errorLogged
    /\ clearedTimer' = s.clearedTimer

\* what every step of the facade records, and what it leaves alone
Note(op) ==
    /\ UNCHANGED soVars
    /\ UNCHANGED auxVars
    /\ lastOp' = op
    /\ prevDestroy' = (lastOp = "destroy" /\ instance /\ ~thrown)

WmInit ==
    /\ instance = FALSE
    /\ options = DefaultOptions
    /\ container = NULL
    /\ watermarkDom = NoNode
    /\ observer = NULL
    /\ resizeObserver = NULL
    /\ debounceRender = NoTimer
    /\ dom = {}
    /\ moQueue = {}
    /\ timers = {}
    /\ lastOp = "init"
    /\ prevDestroy = FALSE
    /\ thrown = FALSE
    /\ errorLogged = FALSE
    /\ destroyed = FALSE
    /\ staleTimer = FALSE
    /\ clearedTimer = FALSE

\* watermarkInstance.apply(options)
Apply(o) ==
    /\ Commit(ApplyBody(Cur, o))
    /\ instance' = TRUE
    /\ Note("apply")
    /\ destroyed' = FALSE
    /\ staleTimer' = staleTimer

\* watermarkInstance.remove(): destroy() when the instance exists
Remove ==
    /\ Commit(IF instance THEN DestroyBody(Cur) ELSE Cur)
    /\ instance' = instance
    /\ Note("destroy")
    /\ destroyed' = (instance /\ ~DestroyBody(Cur).thrown)
    /\ staleTimer' = (timers # {})

\* watermarkInstance.getInstance()
GetInstance ==
    /\ ~instance
    /\ Commit(Cur)
    /\ instance' = TRUE
    /\ Note("getInstance")
    /\ UNCHANGED <<destroyed, staleTimer>>

\* the attached element whose identity is i
NodeOf(i) == CHOOSE n \in dom : n.nid = i

\* outside code removes an overlay element from the document
ExternalRemove(i) ==
    /\ \E m \in dom : m.nid = i
    /\ LET n == NodeOf(i) IN
       Commit(Recorded([Cur EXCEPT !.dom = dom \ {n}], n.parent,
                       [type |-> "childList", node |-> n.nid]))
    /\ Note("externalRemove")
    /\ UNCHANGED <<instance, destroyed, staleTimer>>

\* outside code rewrites the style attribute of an overlay element
ExternalStyle(i) ==
    /\ \E m \in dom : m.nid = i /\ m.pointerEvents = "none"
    /\ LET n == NodeOf(i) IN
       Commit(Recorded([Cur EXCEPT !.dom = (dom \ {n}) \cup
                                      {[n EXCEPT !.pointerEvents = "auto"]}],
                       n.parent, [type |-> "attributes", node |-> n.nid]))
    /\ Note("externalStyle")
    /\ UNCHANGED <<instance, destroyed, staleTimer>>

\* the browser delivers the queued mutation records
MutationCallback ==
    /\ observer # NULL
    /\ moQueue # {}
    /\ Commit(MutationCallbackBody(Cur))
    /\ Note("mutationCallback")
    /\ staleTimer' = (staleTimer /\ ~NeedRender(moQueue, watermarkDom))
    /\ UNCHANGED <<instance, destroyed>>

\* a pending debounce timer expires: console.warn, this.render()
TimerFire(t) ==
    /\ t \in timers
    /\ Commit(Render([Cur EXCEPT !.timers = timers \ {t}]))
    /\ Note("timerFire")
    /\ staleTimer' = (staleTimer /\ timers \ {t} # {})
    /\ UNCHANGED <<instance, destroyed>>

\* the observed container is resized: the ResizeObserver callback runs
ResizeCallback ==
    /\ resizeObserver # NULL
    /\ Commit(ResizeCallbackBody(Cur))
    /\ Note("resizeCallback")
    /\ UNCHANGED <<instance, destroyed, staleTimer>>

Next ==
    \/ \E o \in ApplyArgs : Apply(o)
    \/ Remove
    \/ GetInstance
    \/ \E i \in NodeIds : ExternalRemove(i)
    \/ \E i \in NodeIds : ExternalStyle(i)
    \/ MutationCallback
    \/ \E t \in TimerIds : TimerFire(t)
    \/ ResizeCallback

\* no ScrollObserver has been constructed
SoIdle ==
    /\ selector = FALSE /\ voEl = FALSE /\ io = FALSE /\ mo = FALSE
    /\ initialized = FALSE /\ soEl = FALSE /\ cleanupListener = FALSE /\ rafId = 0
    /\ elInDom = FALSE /\ inView = FALSE /\ nChildren = 0 /\ ioQueue = <<>>
    /\ moPending = FALSE /\ listening = FALSE /\ frames = {}
    /\ initCalls = 0 /\ initRuns = 0 /\ centerCalls = 0 /\ cancelled = 0
    /\ leftAfterInit = FALSE /\ reentered = FALSE /\ unobserved = FALSE
    /\ soLastOp = "idle"

\* a number as the script sees it: NaN, Infinity or a finite value
Num(v) == [nan |-> FALSE, inf |-> FALSE, v |-> v]
NaN == [nan |-> TRUE, inf |-> FALSE, v |-> 0]
Infinity == [nan |-> FALSE, inf |-> TRUE, v |-> 0]

\* no focus computation is under way
FocusIdle ==
    /\ focusOptions = [has |-> {}, layered |-> <<>>, startIndex |-> 0,
                       centerCoordinate |-> "undefined"]
    /\ containerRect = [top |-> 0, height |-> 0]
    /\ childEls = <<>>
    /\ scrollTop = 0
    /\ targetLineY = NaN
    /\ scrollCenter = <<>>
    /\ focusOp = "idle"

\* nothing has been given to the layout engine
NoResult == [type |-> "none"]

LayoutIdle ==
    /\ content = [js |-> "undefined"]
    /\ inheritedGap = 0
    /\ globalOptions = [fontSize |-> 0]
    /\ ratio = 1
    /\ layoutTree = NoResult
    /\ measured = NoResult
    /\ layoutOp = "idle"

\* the keys load() is called with: two URL strings and a Blob
Keys == {"a.png", "b.png", "blob"}
NoImage == 0

\* the module's imageLoader after construction: nothing cached, nothing loading
LoaderNew ==
    /\ cache = [k \in Keys |-> NoImage]
    /\ loading = {}
    /\ images = 0
    /\ resolvedTo = [k \in Keys |-> {}]
    /\ rejected = {}
    /\ lastLoad = [src |-> "none", hit |-> FALSE, img |-> NoImage]
    /\ loaderOp = "new"

\* no canvas is being generated
NotGenerated == [angle |-> 0, canvasW |-> NaN, canvasH |-> NaN, width |-> 0,
                 height |-> 0, depth |-> 0, rejected |-> FALSE, size |-> <<>>]

DrawerIdle ==
    /\ genArgs = [layoutTree |-> NoResult, options |-> [layout |-> "repeat"], ratio |-> 1]
    /\ generated = NotGenerated
    /\ drawerOp = "idle"

\* no callback has run
NoDelivery == [by |-> "none", batch |-> <<>>, tampered |-> FALSE]

\* no observer is watching
GuardIdle ==
    /\ overlayIn = FALSE
    /\ guardQueue = <<>>
    /\ facadeQueue = <<>>
    /\ delivery = NoDelivery
    /\ guardOp = "idle"

AuxIdle == FocusIdle /\ LayoutIdle /\ LoaderNew /\ DrawerIdle /\ GuardIdle

Init == WmInit /\ SoIdle /\ AuxIdle

Spec == Init /\ [][Next]_vars

(***************************************************************************)
(* Part I: properties of the watermark facade                              *)
(***************************************************************************)

\* the facade's own fields and the browser state it acts on
FacadeState == <<options, container, watermarkDom, observer, resizeObserver,
                 debounceRender, dom, moQueue, timers>>

\* the container holds the element render() created last, with the configured
\* id and the style render() gives it
Healed ==
    /\ container # NULL
    /\ \E n \in dom :
           /\ n.nid = watermarkDom
           /\ n.parent = container
           /\ n.id = options.id
           /\ n.pointerEvents = "none"
           /\ n.zIndex = options.zIndex

\* apply(o) ran to its end: the target resolved and nothing threw
Completed == lastOp = "apply" /\ ~thrown /\ container # NULL

\* C1: with monitoring enabled and no destroy() since the tamper was detected,
\* the firing of the debounce timer leaves the container holding a freshly
\* created overlay with the configured id, pointer-events none and the
\* configured z-index.
C1_TimerRestoresOverlay ==
    [][\A t \in TimerIds :
          (TimerFire(t) /\ options.monitor /\ ~staleTimer) => Healed']_vars

\* C2: after destroy() has returned and until the next apply(), no observer
\* of the facade is connected, the container does not hold the facade's
\* overlay element, and no re-render has run.
C2_DestroyedIsQuiet ==
    destroyed =>
        /\ observer = NULL
        /\ resizeObserver = NULL
        /\ lastOp # "timerFire"
        /\ (container # NULL => ~Contains(dom, container, watermarkDom))

\* C3: after a destroy() directly followed by an apply() that completes with
\* monitoring enabled, exactly one overlay is attached, one mutation observer
\* and one resize observer are connected, both on the container, and no timer
\* callback created before the destroy() is still pending.
C3_FreshRemount ==
    (Completed /\ prevDestroy /\ options.monitor) =>
        /\ Cardinality(dom) = 1
        /\ observer = container
        /\ resizeObserver = container
        /\ timers = {}

\* C4: at most one overlay element created by the facade is attached to the
\* document, in every reachable state.
C4_AtMostOneOverlay == Cardinality(dom) <= 1

\* C5: after an apply(o) that completes, the document contains an element
\* whose id is the id given in o, or 'watermark-layer' when o gives none.
C5_OverlayHasConfiguredId ==
    [][\A o \in ApplyArgs :
          (Apply(o) /\ Completed') =>
              \E n \in dom' :
                 n.id = IF "id" \in o.given THEN o.id ELSE "watermark-layer"]_vars

\* C6: apply() with a mount-target selector that matches nothing logs an
\* error, does not throw, attaches no overlay and connects no observer: the
\* document and both observers are as before the call.
C6_MissingTargetAborts ==
    [][\A o \in ApplyArgs :
          (Apply(o) /\ "el" \in o.given /\ ResolveSelector(o.el) = NULL) =>
              /\ errorLogged'
              /\ ~thrown'
              /\ dom' = dom
              /\ observer' = observer
              /\ resizeObserver' = resizeObserver]_vars

\* C6 witness: a failed apply() on an instance that is mounted and observed
C6_Witness ==
    /\ lastOp = "apply"
    /\ errorLogged
    /\ container = NULL
    /\ dom # {}
    /\ observer # NULL

\* C7: on every apply(o) the configuration used for rendering has o's value
\* for each field o gives and the default for each field o omits.
C7_DefaultsFillOmitted ==
    [][\A o \in ApplyArgs : Apply(o) => options' = Spread(DefaultOptions, o)]_vars

\* C8: after an apply() that completes with monitor false, neither a mutation
\* observer nor a resize observer of the facade is connected.
C8_NoGuardWithoutMonitor ==
    (Completed /\ ~options.monitor) => (observer = NULL /\ resizeObserver = NULL)

FrameIds == 1..MaxFrames

\* The two objects' fields and the browser state as one value. centerCalls
\* counts the callback invocations of the step that starts here.
SoCur ==
    [voEl |-> voEl, io |-> io, mo |-> mo, initialized |-> initialized,
     soEl |-> soEl, cleanupListener |-> cleanupListener, rafId |-> rafId,
     elInDom |-> elInDom, inView |-> inView, nChildren |-> nChildren,
     ioQueue |-> ioQueue, moPending |-> moPending, listening |-> listening,
     frames |-> frames, initCalls |-> initCalls, initRuns |-> initRuns,
     centerCalls |-> 0, cancelled |-> 0, stuck |-> FALSE]

\* ScrollObserver._handleScroll: with this.el set and at least one matched
\* child, closestItem is set and onScrollCenter is called once
HandleScroll(s) ==
    IF ~s.soEl THEN s
    ELSE IF s.nChildren > 0 THEN [s EXCEPT !.centerCalls = @ + 1]
    ELSE s

\* ScrollObserver._init: nothing without matched children; else one
\* computation, then the scroll and resize listeners and the cleanup function
InitBody(s) ==
    LET s0 == [s EXCEPT !.initRuns = @ + 1]
    IN IF s0.nChildren = 0 THEN s0
       ELSE [HandleScroll(s0) EXCEPT !.listening = TRUE, !.cleanupListener = TRUE]

\* the onInit the ScrollObserver constructor passes to its VisibilityObserver;
\* the user's onInit and onScrollCenter are given and return normally
OnInit(s) ==
    InitBody([s EXCEPT !.soEl = TRUE, !.initCalls = @ + 1])

\* VisibilityObserver.disconnect: both watchers disconnected, their queued
\* entries and records dropped
Disconnect(s) ==
    [s EXCEPT !.io = FALSE, !.mo = FALSE, !.ioQueue = <<>>, !.moPending = FALSE]

\* the IntersectionObserver callback on one entry, without the
\* `!this.initialized` test
IoEntryNoInitializedTest(s, isIntersecting) ==
    IF isIntersecting
    THEN Disconnect(OnInit([s EXCEPT !.initialized = TRUE]))
    ELSE s

\* the IntersectionObserver callback on one entry
IoEntry(s, isIntersecting) ==
    IF isIntersecting /\ ~s.initialized
    THEN Disconnect(OnInit([s EXCEPT !.initialized = TRUE]))
    ELSE s

\* entries.forEach(...) over the delivered batch
RECURSIVE IoCallbackBody(_, _)
IoCallbackBody(s, entries) ==
    IF entries = <<>> THEN s
    ELSE IoCallbackBody(IoEntry(s, Head(entries)), Tail(entries))

\* VisibilityObserver._startObserve: a new IntersectionObserver observes el;
\* the browser queues a first entry with the current intersection state
StartObserve(s) ==
    [s EXCEPT !.io = TRUE, !.ioQueue = <<s.inView>>]

\* the MutationObserver callback of _waitForElement
MoCallbackBody(s) ==
    LET s1 == [s EXCEPT !.moPending = FALSE]
    IN IF s1.elInDom
       THEN [StartObserve([s1 EXCEPT !.voEl = TRUE]) EXCEPT !.mo = FALSE]
       ELSE s1

\* ScrollObserver._onScrollOrResize without the cancelAnimationFrame call
OnScrollOrResizeNoCancel(s) ==
    LET free == FrameIds \ (s.frames \cup {s.rafId})
    IN IF free = {} THEN [s EXCEPT !.stuck = TRUE]
       ELSE [s EXCEPT !.frames = @ \cup {MinOf(free)}, !.rafId = MinOf(free)]

\* ScrollObserver._onScrollOrResize: cancel the frame this._rafId names,
\* request a new one
OnScrollOrResize(s) ==
    LET kept == s.frames \ {s.rafId}
        free == FrameIds \ (kept \cup {s.rafId})
    IN IF free = {} THEN [s EXCEPT !.stuck = TRUE]
       ELSE [s EXCEPT !.frames = kept \cup {MinOf(free)}, !.rafId = MinOf(free),
                      !.cancelled = Cardinality(s.frames \cap {s.rafId})]

\* ScrollObserver.unobserve without the call of this._visibilityOb.disconnect()
UnobserveBodyNoDisconnect(s) ==
    LET s1 == IF s.cleanupListener
              THEN [s EXCEPT !.listening = FALSE, !.frames = @ \ {s.rafId}]
              ELSE s
    IN [s1 EXCEPT !.soEl = FALSE]

\* ScrollObserver.unobserve
UnobserveBody(s) ==
    LET s1 == IF s.cleanupListener
              THEN [s EXCEPT !.listening = FALSE, !.frames = @ \ {s.rafId},
                             !.cancelled = Cardinality(s.frames \cap {s.rafId})]
              ELSE s
    IN [Disconnect(s1) EXCEPT !.soEl = FALSE]

SoCommit(s) ==
    /\ ~s.stuck
    /\ voEl' = s.voEl
    /\ io' = s.io
    /\ mo' = s.mo
    /\ initialized' = s.initialized
    /\ soEl' = s.soEl
    /\ cleanupListener' = s.cleanupListener
    /\ rafId' = s.rafId
    /\ elInDom' = s.elInDom
    /\ inView' = s.inView
    /\ nChildren' = s.nChildren
    /\ ioQueue' = s.ioQueue
    /\ moPending' = s.moPending
    /\ listening' = s.listening
    /\ frames' = s.frames
    /\ initCalls' = s.initCalls
    /\ initRuns' = s.initRuns
    /\ centerCalls' = s.centerCalls
    /\ cancelled' = s.cancelled

\* what every step of the scroll observer records, and what it leaves alone
SoNote(op) ==
    /\ UNCHANGED wmVars
    /\ UNCHANGED auxVars
    /\ UNCHANGED selector
    /\ soLastOp' = op

\* the state after new ScrollObserver(el, options): with an element, or with a
\* selector that matches, the intersection watch has started; with a selector
\* that matches nothing yet, the mutation watch of document.body has
SoInit ==
    /\ selector \in BOOLEAN
    /\ elInDom \in BOOLEAN
    /\ inView \in BOOLEAN
    /\ nChildren \in 0..MaxChildren
    /\ (~selector => elInDom)
    /\ (inView => elInDom)
    /\ voEl = elInDom
    /\ io = elInDom
    /\ ioQueue = IF elInDom THEN <<inView>> ELSE <<>>
    /\ mo = ~elInDom
    /\ moPending = FALSE
    /\ initialized = FALSE
    /\ soEl = FALSE
    /\ cleanupListener = FALSE
    /\ rafId = 0
    /\ listening = FALSE
    /\ frames = {}
    /\ initCalls = 0
    /\ initRuns = 0
    /\ centerCalls = 0
    /\ cancelled = 0
    /\ leftAfterInit = FALSE
    /\ reentered = FALSE
    /\ unobserved = FALSE
    /\ soLastOp = "new"

\* the element the selector names is added to the document
ElementAppears ==
    /\ ~elInDom
    /\ SoCommit([SoCur EXCEPT !.elInDom = TRUE, !.moPending = mo])
    /\ SoNote("elementAppears")
    /\ UNCHANGED <<leftAfterInit, reentered, unobserved>>

\* some other change under document.body
OtherBodyMutation ==
    /\ mo
    /\ ~moPending
    /\ SoCommit([SoCur EXCEPT !.moPending = TRUE])
    /\ SoNote("otherBodyMutation")
    /\ UNCHANGED <<leftAfterInit, reentered, unobserved>>

\* the browser delivers the queued mutation records to this.mo
MoCallback ==
    /\ mo
    /\ moPending
    /\ SoCommit(MoCallbackBody(SoCur))
    /\ SoNote("moCallback")
    /\ UNCHANGED <<leftAfterInit, reentered, unobserved>>

\* the container enters (b) or leaves (~b) the viewport, or crosses a
\* threshold on the same side; a connected IntersectionObserver queues an entry
IntersectionChange(b) ==
    /\ elInDom
    /\ Len(ioQueue) < MaxEntries
    /\ SoCommit([SoCur EXCEPT !.inView = b,
                              !.ioQueue = IF io THEN Append(@, b) ELSE @])
    /\ SoNote("intersectionChange")
    /\ leftAfterInit' = (leftAfterInit \/ (initialized /\ ~b))
    /\ reentered' = (reentered \/ (leftAfterInit /\ b))
    /\ UNCHANGED unobserved

\* the browser delivers the queued entries to the IntersectionObserver callback
IoCallback ==
    /\ io
    /\ ioQueue # <<>>
    /\ SoCommit(IoCallbackBody([SoCur EXCEPT !.ioQueue = <<>>], ioQueue))
    /\ SoNote("ioCallback")
    /\ UNCHANGED <<leftAfterInit, reentered, unobserved>>

\* elements matching options.selectors are added to or removed from the container
ChildrenChange(n) ==
    /\ elInDom
    /\ n # nChildren
    /\ SoCommit([SoCur EXCEPT !.nChildren = n])
    /\ SoNote("childrenChange")
    /\ UNCHANGED <<leftAfterInit, reentered, unobserved>>

\* a scroll event of the scroll element or a resize event of the window
ScrollOrResize ==
    /\ listening
    /\ SoCommit(OnScrollOrResize(SoCur))
    /\ SoNote("scrollOrResize")
    /\ UNCHANGED <<leftAfterInit, reentered, unobserved>>

\* a requested animation frame runs this._handleScroll
FrameFire(f) ==
    /\ f \in frames
    /\ SoCommit(HandleScroll([SoCur EXCEPT !.frames = @ \ {f}]))
    /\ SoNote("frameFire")
    /\ UNCHANGED <<leftAfterInit, reentered, unobserved>>

\* ScrollObserver.unobserve()
Unobserve ==
    /\ SoCommit(UnobserveBody(SoCur))
    /\ SoNote("unobserve")
    /\ unobserved' = TRUE
    /\ UNCHANGED <<leftAfterInit, reentered>>

ScrollInit == WmInit /\ SoInit /\ AuxIdle

ScrollNext ==
    \/ ElementAppears
    \/ OtherBodyMutation
    \/ MoCallback
    \/ \E b \in BOOLEAN : IntersectionChange(b)
    \/ IoCallback
    \/ \E n \in 0..MaxChildren : ChildrenChange(n)
    \/ ScrollOrResize
    \/ \E f \in FrameIds : FrameFire(f)
    \/ Unobserve

SpecScroll == ScrollInit /\ [][ScrollNext]_vars

(***************************************************************************)
(* Part II: properties of the scroll observer                              *)
(***************************************************************************)

\* C10: the init callback is invoked at most once, and only by the first
\* intersecting entry; once the initialization has happened both watchers are
\* disconnected, and no later step - the container leaving and re-entering the
\* viewport included - invokes the init callback or runs _init again.
C10_InitOnce ==
    /\ [](/\ initCalls <= 1
          /\ initRuns <= 1
          /\ (initCalls = 1 <=> initialized)
          /\ (initialized => ~io /\ ~mo))
    /\ [][/\ initialized => (initCalls' = initCalls /\ initRuns' = initRuns)
          /\ initCalls' # initCalls =>
                (IoCallback /\ \E k \in 1..Len(ioQueue) : ioQueue[k])]_vars

\* C10 witness: initialized once, and the container has since left the
\* viewport and entered it again
C10_Witness ==
    /\ initialized
    /\ initCalls = 1
    /\ initRuns = 1
    /\ reentered
    /\ inView

\* C11: once unobserve() has been called - while waiting for the element,
\* while waiting for the viewport entry, or when active with or without a
\* pending frame - no step invokes the init callback or the scroll-center
\* callback or runs _init, whatever events follow: both watchers are
\* disconnected, the listeners are removed, no frame is pending and el is
\* null. unobserve() itself invokes no callback, and a repeated unobserve()
\* changes no field of the observer.
C11_UnobserveIsFinal ==
    /\ [](unobserved => (~io /\ ~mo /\ ~soEl /\ ~listening /\ frames = {}
                         /\ ioQueue = <<>> /\ ~moPending))
    /\ [][/\ unobserved =>
                (initCalls' = initCalls /\ initRuns' = initRuns /\ centerCalls' = 0)
          /\ Unobserve =>
                (initCalls' = initCalls /\ initRuns' = initRuns /\ centerCalls' = 0)
          /\ (unobserved /\ Unobserve) =>
                UNCHANGED <<voEl, io, mo, initialized, soEl, cleanupListener,
                            rafId, listening, frames, ioQueue, moPending>>]_vars

\* C11 witness: unobserve() has just been called on an active observer with a
\* pending frame, which it cancelled, while children match
C11_Witness ==
    /\ unobserved
    /\ soLastOp = "unobserve"
    /\ initialized
    /\ cancelled = 1
    /\ nChildren > 0
    /\ inView

\* C12: at most one animation frame is pending, and it is the one this._rafId
\* names. A scroll or resize event cancels the pending request, if any, and
\* leaves exactly the new request pending; the frame that runs is the one the
\* last event requested, it recomputes once, and no request is pending after
\* it - so the events between two frames cause one recomputation, after the
\* last of them.
C12_OneFramePending ==
    /\ [](Cardinality(frames) <= 1 /\ frames \subseteq {rafId})
    /\ [][/\ ScrollOrResize =>
                (/\ rafId' # rafId
                 /\ frames' = {rafId'}
                 /\ cancelled' = Cardinality(frames)
                 /\ centerCalls' = 0)
          /\ \A f \in FrameIds : FrameFire(f) =>
                (/\ f = rafId
                 /\ frames' = {}
                 /\ centerCalls' = (IF nChildren > 0 THEN 1 ELSE 0))]_vars

\* C12 witness: an event has arrived while a frame request was pending; the
\* old request is cancelled and the new one is the only one pending
C12_Witness ==
    /\ soLastOp = "scrollOrResize"
    /\ cancelled = 1
    /\ frames = {rafId}

(***************************************************************************)
(* Part III: the focus computation of the scroll observer,                 *)
(* ScrollObserver.targetRatio, listenComponents and _handleScroll.         *)
(* Lengths are whole pixels. A ratio is kept as 200 times its value and a  *)
(* vertical position as 200 times its value, so that half a band and half  *)
(* an item height stay whole numbers.                                      *)
(***************************************************************************)

\* band arrays an observer is configured with: none or empty (the default
\* applies), bands that sum to 100, and bands that do not
LayeredArgs == {<<>>, <<20, 30, 50>>, <<50, 50, 50>>}

\* The option objects: `has` tells whether startIndex is an own property (a
\* missing one holds a fixed placeholder); a missing or empty layered is <<>>,
\* a missing centerCoordinate is "undefined". A given startIndex may lie
\* outside the band array.
FocusOptionArgs ==
    {[has |-> {}, layered |-> l, startIndex |-> 0, centerCoordinate |-> c] :
        l \in LayeredArgs, c \in {"undefined", "top", "center", "bottom"}}
    \cup
    {[has |-> {"startIndex"}, layered |-> l, startIndex |-> k,
      centerCoordinate |-> c] :
        l \in LayeredArgs, k \in -1..3,
        c \in {"undefined", "top", "center", "bottom"}}

\* a + b and k * a on script numbers
Add(a, b) == IF a.nan \/ b.nan THEN NaN ELSE Num(a.v + b.v)
Times(k, a) == IF a.nan THEN NaN ELSE Num(k * a.v)

\* layers[i] used as a number: undefined, and so NaN, outside the array
LayerAt(layers, i) ==
    IF i \in 0..(Len(layers) - 1) THEN Num(layers[i + 1]) ELSE NaN

\* the loop `for (i = 0; i < startIndex; i++) offsetPercent += layers[i]`
RECURSIVE OffsetPercent(_, _)
OffsetPercent(layers, startIndex) ==
    IF startIndex <= 0 THEN Num(0)
    ELSE Add(OffsetPercent(layers, startIndex - 1), LayerAt(layers, startIndex - 1))

\* the getter with `addition = currentLayerPercent` for 'center' too
TargetRatioNoHalf(o) ==
    LET layers == IF Len(o.layered) # 0 THEN o.layered ELSE <<45, 10, 45>>
        startIndex == IF "startIndex" \in o.has THEN o.startIndex
                      ELSE Len(layers) \div 2
        centerCoordinate == IF o.centerCoordinate = "undefined" THEN "center"
                            ELSE o.centerCoordinate
        currentLayerPercent == LayerAt(layers, startIndex)
        addition == IF centerCoordinate \in {"bottom", "center"}
                    THEN Times(2, currentLayerPercent)
                    ELSE Num(0)
    IN Add(Times(2, OffsetPercent(layers, startIndex)), addition)

\* ScrollObserver.targetRatio, as 200 times the ratio
TargetRatio(o) ==
    LET layers == IF Len(o.layered) # 0 THEN o.layered ELSE <<45, 10, 45>>
        startIndex == IF "startIndex" \in o.has THEN o.startIndex
                      ELSE Len(layers) \div 2
        centerCoordinate == IF o.centerCoordinate = "undefined" THEN "center"
                            ELSE o.centerCoordinate
        currentLayerPercent == LayerAt(layers, startIndex)
        addition == IF centerCoordinate = "bottom"
                    THEN Times(2, currentLayerPercent)
                    ELSE IF centerCoordinate = "center"
                         THEN currentLayerPercent
                         ELSE Num(0)
    IN Add(Times(2, OffsetPercent(layers, startIndex)), addition)

\* item.getBoundingClientRect() of child i: the children are stacked from the
\* container's top edge and moved up by the scroll offset
RECURSIVE HeightBefore(_, _)
HeightBefore(cs, i) ==
    IF i <= 1 THEN 0 ELSE HeightBefore(cs, i - 1) + cs[i - 1].height

ItemRect(rect, cs, st, i) ==
    [top |-> rect.top + HeightBefore(cs, i) - st, height |-> cs[i].height]

\* ScrollObserver.listenComponents: the children matching options.selectors,
\* in document order
RECURSIVE ListenComponents(_)
ListenComponents(cs) ==
    IF cs = <<>> THEN <<>>
    ELSE LET front == ListenComponents(SubSeq(cs, 1, Len(cs) - 1))
         IN IF cs[Len(cs)].matches THEN Append(front, Len(cs)) ELSE front

\* Math.abs(targetLineY - itemCenterY), as 200 times the distance
Distance(target, itemRect) ==
    IF target.nan THEN NaN
    ELSE LET d == target.v - (200 * itemRect.top + 100 * itemRect.height)
         IN Num(IF d < 0 THEN -d ELSE d)

\* the comparison of the loop with <= in place of <
LessOrEqual(a, b) == ~a.nan /\ ~b.nan /\ ~a.inf /\ (b.inf \/ a.v <= b.v)

\* distance < minDistance
Less(a, b) == ~a.nan /\ ~b.nan /\ ~a.inf /\ (b.inf \/ a.v < b.v)

\* items.forEach(...) from position `index` on: the closest item so far and
\* its distance; NULL while there is none
RECURSIVE ForEachItem(_, _, _, _, _, _, _)
ForEachItem(target, rect, cs, st, index, minDistance, closestItem) ==
    LET items == ListenComponents(cs)
    IN IF index >= Len(items) THEN closestItem
       ELSE LET item == items[index + 1]
                distance == Distance(target, ItemRect(rect, cs, st, item))
            IN IF Less(distance, minDistance)
               THEN ForEachItem(target, rect, cs, st, index + 1, distance,
                                [el |-> item, index |-> index])
               ELSE ForEachItem(target, rect, cs, st, index + 1, minDistance,
                                closestItem)

\* containerRect.top + containerRect.height * this.targetRatio, as 200 times
\* the position
TargetLineY(rect, o) == Add(Num(200 * rect.top), Times(rect.height, TargetRatio(o)))

\* the onScrollCenter calls of one run of _handleScroll (el is set and
\* options.onScrollCenter is a function)
HandleScrollCalls(o, rect, cs, st) ==
    LET closestItem == ForEachItem(TargetLineY(rect, o), rect, cs, st, 0,
                                   Infinity, <<>>)
    IN IF closestItem # <<>> THEN <<closestItem>> ELSE <<>>

\* the state after the first intersecting entry: options as constructed, the
\* container placed, up to MaxItems children of which some match the selector
FocusStart ==
    /\ focusOptions \in FocusOptionArgs
    /\ containerRect \in [top : {0, 20}, height : {100, 200}]
    /\ childEls \in UNION {[1..n -> [matches : BOOLEAN, height : {20, 40}]] :
                             n \in 0..MaxItems}
    /\ scrollTop = 0
    /\ targetLineY = NaN
    /\ scrollCenter = <<>>
    /\ focusOp = "init"

FocusNote(op) ==
    /\ UNCHANGED wmVars
    /\ UNCHANGED soVars
    /\ UNCHANGED layoutVars
    /\ UNCHANGED loaderVars
    /\ UNCHANGED drawerVars
    /\ UNCHANGED guardVars
    /\ UNCHANGED <<focusOptions, childEls>>
    /\ focusOp' = op

\* the container is scrolled to offset y
ScrollTo(y) ==
    /\ focusOp # "idle"
    /\ y # scrollTop
    /\ scrollTop' = y
    /\ scrollCenter' = <<>>
    /\ UNCHANGED <<containerRect, targetLineY>>
    /\ FocusNote("scrollTo")

\* the window is resized and the container gets height h
ResizeTo(h) ==
    /\ focusOp # "idle"
    /\ h # containerRect.height
    /\ containerRect' = [containerRect EXCEPT !.height = h]
    /\ scrollCenter' = <<>>
    /\ UNCHANGED <<scrollTop, targetLineY>>
    /\ FocusNote("resizeTo")

\* a run of ScrollObserver._handleScroll
HandleScrollRun ==
    /\ focusOp # "idle"
    /\ targetLineY' = TargetLineY(containerRect, focusOptions)
    /\ scrollCenter' = HandleScrollCalls(focusOptions, containerRect, childEls,
                                         scrollTop)
    /\ UNCHANGED <<containerRect, scrollTop>>
    /\ FocusNote("handleScroll")

FocusInit == WmInit /\ SoIdle /\ FocusStart /\ LayoutIdle /\ LoaderNew /\ DrawerIdle /\ GuardIdle

FocusNext ==
    \/ \E y \in {0, 10, 20} : ScrollTo(y)
    \/ \E h \in {100, 200} : ResizeTo(h)
    \/ HandleScrollRun

SpecFocus == FocusInit /\ [][FocusNext]_vars

(***************************************************************************)
(* Part III: properties of the focus computation                           *)
(***************************************************************************)
\* the children that match the selector, and what the claims say of them
Matched == {i \in 1..Len(childEls) : childEls[i].matches}

\* twice the vertical centre top + height/2 of child i
Centre2(i) ==
    LET r == ItemRect(containerRect, childEls, scrollTop, i)
    IN 2 * r.top + r.height

\* 200 times the distance of child i's centre to the recorded focus line
DistanceToLine(i) ==
    LET d == targetLineY.v - 100 * Centre2(i)
    IN IF d < 0 THEN -d ELSE d

\* the effective band array and focus band index of the options
Bands == IF focusOptions.layered = <<>> THEN <<45, 10, 45>> ELSE focusOptions.layered
BandIndex ==
    IF "startIndex" \in focusOptions.has THEN focusOptions.startIndex
    ELSE Len(Bands) \div 2
BandIndexInside == BandIndex \in 0..(Len(Bands) - 1)

\* the call the claim describes: one call, with the first of the matched
\* children at the minimum distance and its index among the matched children
ClosestMatchedCalled ==
    /\ Len(scrollCenter) = 1
    /\ scrollCenter[1].el \in Matched
    /\ \A m \in Matched : DistanceToLine(scrollCenter[1].el) <= DistanceToLine(m)
    /\ \A m \in Matched :
           DistanceToLine(m) = DistanceToLine(scrollCenter[1].el)
               => scrollCenter[1].el <= m
    /\ scrollCenter[1].index =
           Cardinality({m \in Matched : m < scrollCenter[1].el})

\* C13 as stated: every recomputation with at least one matched child invokes
\* the scroll-center callback exactly once, with the first of the matched
\* children at the minimum distance to the focus line and its index among
\* the matched children.
C13_ClosestChildEveryRecomputation ==
    (focusOp = "handleScroll" /\ Matched # {})
        => (~targetLineY.nan /\ ClosestMatchedCalled)

\* C13 amended: a focus band index inside the band array makes the focus line
\* a number, and every recomputation whose focus line is a number invokes the
\* scroll-center callback exactly once when at least one child matches - with
\* the matched child whose centre is at the minimum distance to the focus
\* line, the first in document order among several at that distance, and its
\* index among the matched children - and not at all when none matches.
C13_ClosestChildForNumericLine ==
    focusOp = "handleScroll" =>
        /\ BandIndexInside => ~targetLineY.nan
        /\ (~targetLineY.nan /\ Matched # {}) => ClosestMatchedCalled
        /\ Matched = {} => scrollCenter = <<>>

\* C13 witness: a recomputation with two matched children at the same minimum
\* distance to the focus line has called back with the first of them
C13_Witness ==
    /\ focusOp = "handleScroll"
    /\ ~targetLineY.nan
    /\ Matched = {1, 2}
    /\ DistanceToLine(1) = DistanceToLine(2)
    /\ Len(scrollCenter) = 1
    /\ scrollCenter[1] = [el |-> 1, index |-> 0]

\* the sum of the first k bands, and of all of them
RECURSIVE BandSum(_)
BandSum(k) == IF k = 0 THEN 0 ELSE BandSum(k - 1) + Bands[k]

\* the sub-position of the focus line in its band, 'center' when none is given
SubPosition ==
    IF focusOptions.centerCoordinate = "undefined" THEN "center"
    ELSE focusOptions.centerCoordinate

\* 200 r, for r = (bands before the focus band + 0, half or all of the focus
\* band) / 100
ClaimedRatio200 ==
    2 * BandSum(BandIndex)
      + (CASE SubPosition = "top" -> 0
           [] SubPosition = "center" -> Bands[BandIndex + 1]
           [] SubPosition = "bottom" -> 2 * Bands[BandIndex + 1])

\* C15: for a focus band index inside the band array, the focus line a
\* recomputation uses lies at container top + container height * r with
\* r = (sum of the bands before the focus band + 0, half or all of the focus
\* band for top, center, bottom) / 100; the defaults (no bands, no index, no
\* sub-position given) give r = 0.5; and bands that sum to 100 give
\* 0 <= r <= 1.
C15_FocusLineRatio ==
    focusOp = "handleScroll" =>
        /\ BandIndexInside =>
              /\ TargetRatio(focusOptions) = Num(ClaimedRatio200)
              /\ targetLineY = Num(200 * containerRect.top
                                     + containerRect.height * ClaimedRatio200)
        /\ (focusOptions.layered = <<>> /\ focusOptions.has = {}
              /\ focusOptions.centerCoordinate = "undefined")
              => TargetRatio(focusOptions) = Num(100)
        /\ (BandIndexInside /\ BandSum(Len(Bands)) = 100)
              => /\ ~TargetRatio(focusOptions).nan
                 /\ TargetRatio(focusOptions).v \in 0..200

\* C15 witness: a recomputation with given bands that sum to 100, the last
\* band as focus band and sub-position bottom puts the focus line at the
\* container's bottom edge (r = 1)
C15_Witness ==
    /\ focusOp = "handleScroll"
    /\ focusOptions.layered = <<20, 30, 50>>
    /\ "startIndex" \in focusOptions.has
    /\ focusOptions.startIndex = 2
    /\ focusOptions.centerCoordinate = "bottom"
    /\ targetLineY = Num(200 * (containerRect.top + containerRect.height))

(***************************************************************************)
(* Part II: properties of the scroll observer, continued                   *)
(***************************************************************************)
\* C14: after the first intersecting entry and until unobserve(), a scroll or
\* resize event is followed by a recomputation that calls back when a child
\* matches at that time, whatever matched at the first intersecting entry.
\* An event can only be followed by a recomputation if the listeners are
\* attached, so while children match the observer must be listening.
C14_EventsAreHeardAfterInit ==
    (initialized /\ ~unobserved /\ nChildren > 0) => listening

(***************************************************************************)
(* Part IV: the layout engine, packages/watermark/src/core/layout.ts:      *)
(* LayoutEngine.normalize, _normalizeText, _resolveGap and measure.        *)
(* A string is a sequence of characters. A content that is not an object   *)
(* is tagged with its script type in the field js; a node is a record with *)
(* the fields the object has. Extents are kept in tenths of a pixel.       *)
(***************************************************************************)
\* \s of the regular expression, over the characters of the model
IsSpace(c) == c \in {" ", "\n", "\r"}

\* the first position from i on that holds no white space
RECURSIVE SkipSpace(_, _)
SkipSpace(s, i) ==
    IF i <= Len(s) /\ IsSpace(s[i]) THEN SkipSpace(s, i + 1) ELSE i

\* /<br\s*\/?>/i at position i: the position after the match, 0 for no match
MatchBr(s, i) ==
    IF /\ i + 2 <= Len(s)
       /\ s[i] = "<"
       /\ s[i + 1] \in {"b", "B"}
       /\ s[i + 2] \in {"r", "R"}
    THEN LET j == SkipSpace(s, i + 3)
             k == IF j <= Len(s) /\ s[j] = "/" THEN j + 1 ELSE j
         IN IF k <= Len(s) /\ s[k] = ">" THEN k + 1 ELSE 0
    ELSE 0

\* .replace(/<br\s*\/?>/gi, '\n'), from position i on
RECURSIVE ReplaceBr(_, _)
ReplaceBr(s, i) ==
    IF i > Len(s) THEN <<>>
    ELSE IF MatchBr(s, i) # 0 THEN <<"\n">> \o ReplaceBr(s, MatchBr(s, i))
         ELSE <<s[i]>> \o ReplaceBr(s, i + 1)

\* .replace(/\r\n/g, '\n'), from position i on
RECURSIVE ReplaceCrLf(_, _)
ReplaceCrLf(s, i) ==
    IF i > Len(s) THEN <<>>
    ELSE IF i < Len(s) /\ s[i] = "\r" /\ s[i + 1] = "\n"
         THEN <<"\n">> \o ReplaceCrLf(s, i + 2)
         ELSE <<s[i]>> \o ReplaceCrLf(s, i + 1)

\* rawText.split('\n'): `line` is the line being read from position i on
RECURSIVE Split(_, _, _)
Split(s, i, line) ==
    IF i > Len(s) THEN <<line>>
    ELSE IF s[i] = "\n" THEN <<line>> \o Split(s, i + 1, <<>>)
         ELSE Split(s, i + 1, Append(line, s[i]))

\* { type: 'text', ...style, text: t }
TextNode(style, t) ==
    [f \in DOMAIN style \cup {"type", "text"} |->
        IF f = "text" THEN t ELSE IF f = "type" THEN "text" ELSE style[f]]

\* the empty object {} as a style
NoStyle == [f \in {} |-> 0]

\* LayoutEngine._normalizeText without the replacement of the <br> tags
NormalizeTextNoBr(text, style, parentGap) ==
    LET rawText == ReplaceCrLf(text, 1)
    IN IF \A i \in 1..Len(rawText) : rawText[i] # "\n"
       THEN TextNode(style, rawText)
       ELSE LET lines == Split(rawText, 1, <<>>)
            IN [type |-> "group", layout |-> "column", gap |-> parentGap,
                items |-> [n \in 1..Len(lines) |-> TextNode(style, lines[n])]]

\* LayoutEngine._normalizeText
NormalizeText(text, style, parentGap) ==
    LET rawText == ReplaceCrLf(ReplaceBr(text, 1), 1)
    IN IF \A i \in 1..Len(rawText) : rawText[i] # "\n"
       THEN TextNode(style, rawText)
       ELSE LET lines == Split(rawText, 1, <<>>)
            IN [type |-> "group", layout |-> "column", gap |-> parentGap,
                items |-> [n \in 1..Len(lines) |-> TextNode(style, lines[n])]]

\* LayoutEngine._resolveGap on a group's gap, a number or undefined
ResolveGap(node) == IF "gap" \in DOMAIN node THEN node.gap ELSE 0

\* LayoutEngine.normalize
RECURSIVE Normalize(_, _)
Normalize(c, gap) ==
    IF "js" \in DOMAIN c
    THEN CASE c.js = "undefined" -> [type |-> "text", text |-> <<>>]
           [] c.js = "string" ->
                IF c.chars = <<>> THEN [type |-> "text", text |-> <<>>]
                ELSE NormalizeText(c.chars, NoStyle, gap)
           [] c.js = "array" ->
                [type |-> "group", layout |-> "column", gap |-> gap,
                 items |-> [n \in 1..Len(c.elems) |-> Normalize(c.elems[n], gap)]]
    ELSE CASE c.type = "text" -> NormalizeText(c.text, c, gap)
           [] c.type = "group" ->
                [c EXCEPT !.items =
                    [n \in 1..Len(c.items) |->
                        Normalize(c.items[n], ResolveGap(c))]]
           [] OTHER -> c

\* { ...node, ...extra }
ObjectWith(node, extra) ==
    [f \in DOMAIN node \cup DOMAIN extra |->
        IF f \in DOMAIN extra THEN extra[f] ELSE node[f]]

\* node[f] || fallback for a numeric property that may be missing
OrElse(node, f, fallback) ==
    IF f \in DOMAIN node /\ node[f] # 0 THEN node[f] ELSE fallback

\* -Infinity, the value of Math.max() without arguments
NegInfinity == [nan |-> FALSE, inf |-> TRUE, v |-> -1]

\* a + b where -Infinity may occur
Plus(a, b) == IF a.inf THEN a ELSE IF b.inf THEN b ELSE Num(a.v + b.v)

\* Math.max(...xs)
RECURSIVE MathMax(_)
MathMax(xs) ==
    IF xs = <<>> THEN NegInfinity
    ELSE LET rest == MathMax(Tail(xs))
         IN IF rest.inf THEN Head(xs)
            ELSE IF Head(xs).inf THEN rest
                 ELSE IF Head(xs).v >= rest.v THEN Head(xs) ELSE rest

\* xs.reduce((acc, x) => acc + x, 0)
RECURSIVE Reduce(_)
Reduce(xs) == IF xs = <<>> THEN Num(0) ELSE Plus(Head(xs), Reduce(Tail(xs)))

\* ctx.measureText(text).width in tenths of a pixel: the canvas is taken to
\* give every character six tenths of the font size
MeasureText(text, fontSize) == 6 * fontSize * Len(text)

\* the extents of a group computed without the gaps
GroupExtentNoGap(node, measuredItems, gap) ==
    LET widths == [n \in 1..Len(measuredItems) |-> measuredItems[n].renderWidth]
        heights == [n \in 1..Len(measuredItems) |-> measuredItems[n].renderHeight]
    IN IF node.layout = "row"
       THEN [renderWidth |-> Reduce(widths), renderHeight |-> MathMax(heights)]
       ELSE [renderWidth |-> MathMax(widths), renderHeight |-> Reduce(heights)]

\* totalW and totalH of measure's group branch
GroupExtent(node, measuredItems, gap) ==
    LET widths == [n \in 1..Len(measuredItems) |-> measuredItems[n].renderWidth]
        heights == [n \in 1..Len(measuredItems) |-> measuredItems[n].renderHeight]
        gaps == Num((Len(measuredItems) - 1) * gap)
    IN IF node.layout = "row"
       THEN [renderWidth |-> Plus(Reduce(widths), gaps),
             renderHeight |-> MathMax(heights)]
       ELSE [renderWidth |-> MathMax(widths),
             renderHeight |-> Plus(Reduce(heights), gaps)]

\* LayoutEngine.measure; _renderWidth and _renderHeight are the fields
\* renderWidth and renderHeight, _gap is renderGap, _font and _color are left out
RECURSIVE Measure(_, _, _)
Measure(node, g, r) ==
    CASE node.type = "text" ->
           LET fontSize == OrElse(node, "fontSize", OrElse(g, "fontSize", 16)) * r
           IN ObjectWith(node, [renderWidth |-> Num(MeasureText(node.text, fontSize)),
                                renderHeight |-> Num(12 * fontSize)])
      [] node.type = "image" ->
           ObjectWith(node, [renderWidth |-> Num(10 * OrElse(node, "width", 50) * r),
                             renderHeight |-> Num(10 * OrElse(node, "height", 50) * r)])
      [] node.type = "group" ->
           LET measuredItems == [n \in 1..Len(node.items) |-> Measure(node.items[n], g, r)]
               gap == 10 * OrElse(node, "gap", 0) * r
           IN ObjectWith(ObjectWith(node, GroupExtent(node, measuredItems, gap)),
                         [items |-> measuredItems, renderGap |-> gap])
      [] OTHER -> ObjectWith(node, [renderWidth |-> Num(0), renderHeight |-> Num(0)])

\* pieces the strings are built from: a letter, the line-break markers \n,
\* \r\n and <br> in three spellings, a lone \r, and the two halves of a tag
Pieces ==
    {<<"a">>, <<"\n">>, <<"\r", "\n">>, <<"\r">>,
     <<"<", "b", "r", ">">>, <<"<", "B", "R", "/", ">">>,
     <<"<", "B", "r", " ", "/", ">">>, <<"<", "b", "r">>, <<">">>}

\* the strings of at most n pieces
RECURSIVE Strings(_)
Strings(n) ==
    IF n = 0 THEN {<<>>}
    ELSE Strings(n - 1) \cup {s \o q : s \in Strings(n - 1), q \in Pieces}

\* nodes a group is built from: styled and unstyled text, images with and
\* without a size, a node with an unrecognized type, groups without children
\* and a group with children
Leaves ==
    {[type |-> "text", text |-> <<"a">>, fontSize |-> 20, fontColor |-> "red"],
     [type |-> "text", text |-> <<"a", "\n", "a", "a">>],
     [type |-> "image", image |-> "logo.png", width |-> 30, height |-> 40],
     [type |-> "image", image |-> "logo.png"],
     [type |-> "video"],
     [type |-> "group", layout |-> "row", gap |-> 10, items |-> <<>>],
     [type |-> "group", layout |-> "column", items |-> <<>>],
     [type |-> "group", layout |-> "row", gap |-> 10,
      items |-> <<[type |-> "text", text |-> <<"a">>],
                  [type |-> "image", image |-> "logo.png"]>>]}

\* the contents normalize is given
Contents ==
    {[js |-> "undefined"]}
    \cup {[js |-> "string", chars |-> s] : s \in Strings(MaxPieces)}
    \cup {[type |-> "text", text |-> s, fontSize |-> 20, fontColor |-> "red"] :
             s \in Strings(MaxPieces)}
    \cup Leaves
    \cup {[type |-> "group", layout |-> l, gap |-> g, items |-> its] :
             l \in {"row", "column"}, g \in {0, 10},
             its \in UNION {[1..n -> Leaves] : n \in 0..MaxGroupItems}}
    \cup {[js |-> "array", elems |-> e] :
             e \in UNION {[1..n -> {[js |-> "string", chars |-> <<"a">>],
                                    [js |-> "string", chars |-> <<"a", "\n", "a">>]}] :
                             n \in 0..MaxGroupItems}}

\* a content and the gap normalize is called with
LayoutStart ==
    /\ content \in Contents
    /\ inheritedGap \in {0, 10}
    /\ globalOptions = [fontSize |-> 0]
    /\ ratio = 1
    /\ layoutTree = NoResult
    /\ measured = NoResult
    /\ layoutOp = "init"

LayoutNote(op) ==
    /\ UNCHANGED wmVars
    /\ UNCHANGED soVars
    /\ UNCHANGED focusVars
    /\ UNCHANGED loaderVars
    /\ UNCHANGED drawerVars
    /\ UNCHANGED guardVars
    /\ UNCHANGED <<content, inheritedGap>>
    /\ layoutOp' = op

\* layoutTree = LayoutEngine.normalize(content, inheritedGap)
NormalizeCall ==
    /\ layoutOp = "init"
    /\ layoutTree' = Normalize(content, inheritedGap)
    /\ UNCHANGED <<globalOptions, ratio, measured>>
    /\ LayoutNote("normalize")

\* measured = LayoutEngine.measure(ctx, layoutTree, g, r)
MeasureCall(g, r) ==
    /\ layoutOp = "normalize"
    /\ globalOptions' = g
    /\ ratio' = r
    /\ measured' = Measure(layoutTree, g, r)
    /\ UNCHANGED layoutTree
    /\ LayoutNote("measure")

LayoutInit == WmInit /\ SoIdle /\ FocusIdle /\ LayoutStart /\ LoaderNew /\ DrawerIdle /\ GuardIdle

LayoutNext ==
    \/ NormalizeCall
    \/ \E g \in {[fontSize |-> 0], [fontSize |-> 14]} :
           \E r \in {1, 2} : MeasureCall(g, r)

SpecLayout == LayoutInit /\ [][LayoutNext]_vars

(***************************************************************************)
(* Part IV: properties of the layout engine                                *)
(***************************************************************************)
\* the content is a string or a text node: its text and its style
IsTextual ==
    \/ "js" \in DOMAIN content /\ content.js = "string"
    \/ "type" \in DOMAIN content /\ content.type = "text"

TextOf == IF "js" \in DOMAIN content THEN content.chars ELSE content.text
StyleOf == IF "js" \in DOMAIN content THEN NoStyle ELSE content

\* position j closes a <br> tag that opens at position i: <, b, r in either
\* case, white space, at most one slash, >
IsBrTag(s, i, j) ==
    /\ i + 3 <= j /\ j <= Len(s)
    /\ s[i] = "<" /\ s[i + 1] \in {"b", "B"} /\ s[i + 2] \in {"r", "R"}
    /\ s[j] = ">"
    /\ \A k \in (i + 3)..(j - 1) : IsSpace(s[k]) \/ (k = j - 1 /\ s[k] = "/")

\* the length of the line-break marker that starts at position i, 0 for none
MarkerAt(s, i) ==
    IF s[i] = "\n" THEN 1
    ELSE IF i < Len(s) /\ s[i] = "\r" /\ s[i + 1] = "\n" THEN 2
         ELSE IF \E j \in 1..Len(s) : IsBrTag(s, i, j)
              THEN (CHOOSE j \in 1..Len(s) : IsBrTag(s, i, j)) - i + 1
              ELSE 0

\* the lines of s: what lies between its markers, read from position i on
RECURSIVE LinesOf(_, _, _)
LinesOf(s, i, line) ==
    IF i > Len(s) THEN <<line>>
    ELSE IF MarkerAt(s, i) # 0
         THEN <<line>> \o LinesOf(s, i + MarkerAt(s, i), <<>>)
         ELSE LinesOf(s, i + 1, Append(line, s[i]))

\* the number N of line-break markers of s
MarkerCount(s) == Len(LinesOf(s, 1, <<>>)) - 1

\* a lone carriage return stands right before a <br> tag
CrBeforeBr(s) ==
    \E i \in 1..Len(s) : \E j \in 1..Len(s) :
        i > 1 /\ s[i - 1] = "\r" /\ IsBrTag(s, i, j)

\* node is a text node with text t and exactly the style's other attributes
IsStyledText(node, t) ==
    /\ DOMAIN node = DOMAIN StyleOf \cup {"type", "text"}
    /\ node.type = "text"
    /\ node.text = t
    /\ \A f \in DOMAIN StyleOf \ {"type", "text"} : node[f] = StyleOf[f]

\* C16: for a string or text node with N line-break markers (\n, \r\n, or
\* <br> in any case with optional white space and slash before the >),
\* normalize returns for N = 0 a single text node with exactly that string
\* and the node's style, and for N >= 1 a column group with exactly N + 1
\* text children without a line break, each with the node's style
\* attributes; the children are the lines in order (unless a lone \r stands
\* right before a <br>, which then goes with the marker).
C16_SplitsAtLineBreaks ==
    (layoutOp = "normalize" /\ IsTextual) =>
        IF MarkerCount(TextOf) = 0
        THEN IsStyledText(layoutTree, TextOf)
        ELSE /\ layoutTree.type = "group"
             /\ layoutTree.layout = "column"
             /\ layoutTree.gap = inheritedGap
             /\ Len(layoutTree.items) = MarkerCount(TextOf) + 1
             /\ \A n \in 1..Len(layoutTree.items) :
                   /\ IsStyledText(layoutTree.items[n], layoutTree.items[n].text)
                   /\ MarkerCount(layoutTree.items[n].text) = 0
                   /\ ~CrBeforeBr(TextOf) =>
                         layoutTree.items[n].text = LinesOf(TextOf, 1, <<>>)[n]

\* C16 witness: a styled text node with three markers in three spellings
\* has been split into four styled lines
C16_Witness ==
    /\ layoutOp = "normalize"
    /\ "type" \in DOMAIN content
    /\ content.type = "text"
    /\ content.text = <<"<", "B", "r", " ", "/", ">", "\r", "\n", "\n">>
    /\ layoutTree.type = "group"
    /\ Len(layoutTree.items) = 4
    /\ layoutTree.items[1].fontColor = "red"

\* the nodes of a tree, and the measured groups among them
RECURSIVE NodesOf(_)
NodesOf(node) ==
    {node} \cup (IF node.type = "group"
                 THEN UNION {NodesOf(node.items[n]) : n \in 1..Len(node.items)}
                 ELSE {})

MeasuredGroups == {n \in NodesOf(measured) : n.type = "group"}

\* an extent is a finite number
IsFinite(x) == ~x.nan /\ ~x.inf

\* the sum of extents: -Infinity as soon as one of them is
RECURSIVE SumOfValues(_, _)
SumOfValues(xs, n) == IF n = 0 THEN 0 ELSE SumOfValues(xs, n - 1) + xs[n].v

SumOfExtents(xs) ==
    IF \A n \in 1..Len(xs) : IsFinite(xs[n]) THEN Num(SumOfValues(xs, Len(xs)))
    ELSE NegInfinity

\* the greatest of at least one extent
AtLeast(x, y) == y.inf \/ (~x.inf /\ x.v >= y.v)
MaxOfExtents(xs) ==
    LET n == CHOOSE k \in 1..Len(xs) : \A j \in 1..Len(xs) : AtLeast(xs[k], xs[j])
    IN xs[n]

ChildWidths(g) == [n \in 1..Len(g.items) |-> g.items[n].renderWidth]
ChildHeights(g) == [n \in 1..Len(g.items) |-> g.items[n].renderHeight]

\* the gap of group g times the ratio, in tenths of a pixel
ScaledGap(g) == 10 * (IF "gap" \in DOMAIN g THEN g.gap ELSE 0) * ratio

\* the row and column formulas for group g
FollowsFormulas(g) ==
    LET gaps == Num((Len(g.items) - 1) * ScaledGap(g))
    IN IF g.layout = "row"
       THEN /\ g.renderWidth = SumOfExtents(<<SumOfExtents(ChildWidths(g)), gaps>>)
            /\ g.renderHeight = MaxOfExtents(ChildHeights(g))
       ELSE /\ g.renderWidth = MaxOfExtents(ChildWidths(g))
            /\ g.renderHeight = SumOfExtents(<<SumOfExtents(ChildHeights(g)), gaps>>)

\* C17: every measured group with at least one child has, as a row, width =
\* sum of the child widths + (count - 1) * scaled gap and height = greatest
\* child height, and as a column width = greatest child width and height =
\* sum of the child heights + (count - 1) * scaled gap: its extent is a
\* function of its children's measured extents and the gap alone.
C17_GroupExtentFormulas ==
    layoutOp = "measure" =>
        \A g \in MeasuredGroups : Len(g.items) >= 1 => FollowsFormulas(g)

\* C17 witness: a row group with gap 10 and two children of different sizes
\* has been measured at ratio 2
C17_Witness ==
    /\ layoutOp = "measure"
    /\ ratio = 2
    /\ measured.type = "group"
    /\ measured.layout = "row"
    /\ Len(measured.items) = 2
    /\ measured.items[1].type = "text"
    /\ measured.items[2].type = "image"
    /\ "width" \in DOMAIN measured.items[2]
    /\ measured.gap = 10
    /\ measured.renderWidth = Num(240 + 600 + 200)
    /\ measured.renderHeight = Num(800)

\* C18: a measured group with zero children has width 0 and height 0, for
\* row and column layout and every gap.
C18_EmptyGroupIsZero ==
    layoutOp = "measure" =>
        \A g \in MeasuredGroups :
            Len(g.items) = 0 => (g.renderWidth = Num(0) /\ g.renderHeight = Num(0))

\* C19: a node with an unrecognized type is measured as 0 by 0, and a
\* non-empty group that contains such a node follows the row and column
\* formulas and has finite extents.
C19_UnknownTypeIsZero ==
    layoutOp = "measure" =>
        /\ \A n \in NodesOf(measured) :
              n.type \notin {"text", "image", "group"}
                  => (n.renderWidth = Num(0) /\ n.renderHeight = Num(0))
        /\ \A g \in MeasuredGroups :
              (\E n \in 1..Len(g.items) :
                  g.items[n].type \notin {"text", "image", "group"})
                  => /\ FollowsFormulas(g)
                     /\ IsFinite(g.renderWidth)
                     /\ IsFinite(g.renderHeight)

(***************************************************************************)
(* Part V: the image loader, packages/watermark/src/utils/image-loader.ts  *)
(* (and its variant with Blob sources): ImageLoader.load, and the onload   *)
(* and onerror events of the images it creates.                            *)
(***************************************************************************)
ImageIds == 1..MaxImages

\* typeof src === 'string'
IsString(k) == k # "blob"

\* ImageLoader.load(src): a cached key resolves to the cached image;
\* otherwise a new Image is created and its fetch starts
LoadBody(k) ==
    IF IsString(k) /\ cache[k] # NoImage
    THEN /\ lastLoad' = [src |-> k, hit |-> TRUE, img |-> cache[k]]
         /\ resolvedTo' = [resolvedTo EXCEPT ![k] = @ \cup {cache[k]}]
         /\ UNCHANGED <<cache, loading, images, rejected>>
    ELSE /\ images < MaxImages
         /\ images' = images + 1
         /\ loading' = loading \cup {[img |-> images + 1, src |-> k]}
         /\ lastLoad' = [src |-> k, hit |-> FALSE, img |-> images + 1]
         /\ UNCHANGED <<cache, resolvedTo, rejected>>

LoaderNote(op) ==
    /\ UNCHANGED wmVars
    /\ UNCHANGED soVars
    /\ UNCHANGED focusVars
    /\ UNCHANGED layoutVars
    /\ UNCHANGED drawerVars
    /\ UNCHANGED guardVars
    /\ loaderOp' = op

\* a call of imageLoader.load(k)
Load(k) ==
    /\ LoadBody(k)
    /\ LoaderNote("load")

\* img.onload of image i: a string key is cached, the promise resolves
ImgOnload(i) ==
    /\ \E l \in loading :
          /\ l.img = i
          /\ loading' = loading \ {l}
          /\ cache' = IF IsString(l.src) THEN [cache EXCEPT ![l.src] = i] ELSE cache
          /\ resolvedTo' = [resolvedTo EXCEPT ![l.src] = @ \cup {i}]
    /\ UNCHANGED <<images, rejected, lastLoad>>
    /\ LoaderNote("onload")

\* an onerror handler that stores the failed image under its key
ImgOnerrorCaches(i) ==
    /\ \E l \in loading :
          /\ l.img = i
          /\ loading' = loading \ {l}
          /\ rejected' = rejected \cup {l}
          /\ cache' = IF IsString(l.src) THEN [cache EXCEPT ![l.src] = i] ELSE cache
    /\ UNCHANGED <<images, resolvedTo, lastLoad>>
    /\ LoaderNote("onerror")

\* img.onerror of image i: the promise rejects, the cache is not written
ImgOnerror(i) ==
    /\ \E l \in loading :
          /\ l.img = i
          /\ loading' = loading \ {l}
          /\ rejected' = rejected \cup {l}
    /\ UNCHANGED <<cache, images, resolvedTo, lastLoad>>
    /\ LoaderNote("onerror")

LoaderInit == WmInit /\ SoIdle /\ FocusIdle /\ LayoutIdle /\ LoaderNew /\ DrawerIdle /\ GuardIdle

LoaderNext ==
    \/ \E k \in Keys : Load(k)
    \/ \E i \in ImageIds : ImgOnload(i)
    \/ \E i \in ImageIds : ImgOnerror(i)

SpecLoader == LoaderInit /\ [][LoaderNext]_vars

(***************************************************************************)
(* Part V: properties of the image loader                                  *)
(***************************************************************************)
\* C20: once a load(k) for a string key k has resolved, every later load(k)
\* resolves to the same image as that load did and starts no new fetch.
C20_ResolvedKeyIsMemoized ==
    [][\A k \in Keys :
          (Load(k) /\ IsString(k) /\ resolvedTo[k] # {})
              => /\ lastLoad'.hit
                 /\ loading' = loading
                 /\ images' = images
                 /\ \A h \in resolvedTo[k] : lastLoad'.img = h]_vars

\* C21: when an image fails to load, its load(src) promise rejects and the
\* cache is not written: a failed image is never the cached image of a key
\* and no load() resolves to it, and a load(src) of a string key issued while
\* the key has failed and has no cached image starts a new fetch.
C21_FailureIsNotCached ==
    /\ [](\A r \in rejected :
            /\ \A k \in Keys : cache[k] # r.img /\ r.img \notin resolvedTo[k]
            /\ r \notin loading)
    /\ [][/\ \A i \in ImageIds :
                ImgOnerror(i) => /\ cache' = cache
                                 /\ resolvedTo' = resolvedTo
                                 /\ \E r \in rejected' \ rejected : r.img = i
          /\ \A k \in Keys :
                (/\ Load(k)
                 /\ IsString(k)
                 /\ cache[k] = NoImage
                 /\ \E r \in rejected : r.src = k)
                    => /\ ~lastLoad'.hit
                       /\ images' = images + 1
                       /\ loading' = loading \cup {[img |-> images', src |-> k]}
                       /\ \A r \in rejected : r.img # lastLoad'.img]_vars

C21_Witness ==
    /\ loaderOp = "load"
    /\ IsString(lastLoad.src)
    /\ ~lastLoad.hit
    /\ cache[lastLoad.src] = NoImage
    /\ \E r \in rejected : r.src = lastLoad.src /\ r.img < lastLoad.img
    /\ [img |-> lastLoad.img, src |-> lastLoad.src] \in loading

\* C29: load(src) calls for one string key that overlap start one image
\* fetch for the key and resolve to one image handle, the handle every later
\* load(src) returns.
C29_OverlappingLoadsShareFetch ==
    \A k \in Keys :
        IsString(k) =>
            /\ Cardinality({l \in loading : l.src = k}) <= 1
            /\ Cardinality(resolvedTo[k]) <= 1
            /\ \A h \in resolvedTo[k] : cache[k] = h

(***************************************************************************)
(* Part VI: the canvas drawer, CanvasDrawer.generate and _drawRecursive.   *)
(* Extents are in tenths of a pixel as in Part IV, angles in degrees, the  *)
(* cosine and sine in thousandths, so that canvasW and canvasH are in      *)
(* ten-thousandths of a pixel.                                             *)
(***************************************************************************)
\* the rotations of the model
Degrees == {0, 20, -20, 45, -45}

\* Math.cos and Math.sin of an angle of d degrees, in thousandths
MathCos(d) == CASE d = 0 -> 1000 [] d \in {20, -20} -> 940 [] d \in {45, -45} -> 707

MathSin(d) ==
    CASE d = 0 -> 0 [] d = 20 -> 342 [] d = -20 -> -342 [] d = 45 -> 707 [] d = -45 -> -707

\* k * a for an integer k and a number a that may be NaN or infinite
JsTimes(k, a) ==
    IF a.nan THEN NaN
    ELSE IF a.inf
         THEN IF k = 0 THEN NaN
              ELSE IF (k > 0) = (a = Infinity) THEN Infinity ELSE NegInfinity
         ELSE Num(k * a.v)

\* Math.abs
MathAbs(a) ==
    IF a.nan THEN NaN
    ELSE IF a.inf THEN Infinity
         ELSE Num(IF a.v < 0 THEN -a.v ELSE a.v)

\* a + b
JsPlus(a, b) ==
    IF a.nan \/ b.nan THEN NaN
    ELSE IF a.inf /\ b.inf THEN (IF a = b THEN a ELSE NaN)
         ELSE IF a.inf THEN a
              ELSE IF b.inf THEN b ELSE Num(a.v + b.v)

\* a / r for a positive integer r; the inputs make the division exact
JsDivide(a, r) == IF a.nan \/ a.inf THEN a ELSE Num(a.v \div r)

\* the value an unsigned long attribute (canvas.width, canvas.height) takes
\* when a number is assigned to it, in whole pixels
UnsignedLong(a) == IF a.nan \/ a.inf \/ a.v < 0 THEN 0 ELSE a.v \div 10000

\* rotate || -20
RotateOrDefault(rotate) ==
    IF rotate.js = "undefined" \/ rotate.v = 0 THEN -20 ELSE rotate.v

\* [gx, gy]: (Array.isArray(gap) ? gap : [gap, gap] || [100, 100]) times ratio,
\* in ten-thousandths of a pixel; [gap, gap] is never falsy, and undefined * ratio is NaN
ScaledTileGap(gap, r) ==
    LET pair == IF gap.js = "array" THEN gap.elems ELSE <<gap, gap>>
        scaled(n) == IF n.js = "undefined" THEN NaN ELSE Num(10000 * n.v * r)
    IN <<scaled(pair[1]), scaled(pair[2])>>

\* canvasW and canvasH
CanvasExtent(contentW, contentH, angle, layout, g) ==
    [canvasW |-> JsPlus(JsPlus(MathAbs(JsTimes(MathCos(angle), contentW)),
                               MathAbs(JsTimes(MathSin(angle), contentH))),
                        IF layout = "repeat" THEN g[1] ELSE Num(0)),
     canvasH |-> JsPlus(JsPlus(MathAbs(JsTimes(MathSin(angle), contentW)),
                               MathAbs(JsTimes(MathCos(angle), contentH))),
                        IF layout = "repeat" THEN g[2] ELSE Num(0))]

\* CanvasDrawer._drawRecursive(ctx, node): the depth of the context's state
\* stack when the call ends, and whether its promise rejected.  ctx.save()
\* pushes a state; the transforms and the drawing calls leave the stack
\* alone; a load of a source in `failing` rejects, and the await throws
\* before ctx.restore(); a rejected child ends a group's loop in the same way.
RECURSIVE DrawRecursive(_, _, _)
RECURSIVE DrawItems(_, _, _)
DrawItems(items, depth, failing) ==
    IF items = <<>> THEN [depth |-> depth, rejected |-> FALSE]
    ELSE LET first == DrawRecursive(Head(items), depth, failing)
         IN IF first.rejected THEN first
            ELSE DrawItems(Tail(items), first.depth, failing)

DrawRecursive(node, depth, failing) ==
    LET saved == depth + 1
        restored == [depth |-> saved - 1, rejected |-> FALSE]
    IN CASE node.type = "text" -> restored
         [] node.type = "image" ->
              IF node.image \in failing
              THEN [depth |-> saved, rejected |-> TRUE]
              ELSE restored
         [] node.type = "group" ->
              LET drawn == DrawItems(node.items, saved, failing)
              IN IF drawn.rejected THEN drawn
                 ELSE [depth |-> drawn.depth - 1, rejected |-> FALSE]
         [] OTHER -> restored

\* the nodes that are measured and drawn: text, images, a node of an
\* unrecognized type, groups without children, and groups of two and of
\* nested children
DrawnNodes ==
    LET text == [type |-> "text", text |-> <<"a", "a">>]
        imageA == [type |-> "image", image |-> "a.png"]
        imageB == [type |-> "image", image |-> "b.png", width |-> 30, height |-> 40]
    IN {text, imageA, [type |-> "video"],
        [type |-> "group", layout |-> "row", gap |-> 10, items |-> <<>>],
        [type |-> "group", layout |-> "column", items |-> <<>>],
        [type |-> "group", layout |-> "row", gap |-> 10, items |-> <<text, imageA>>],
        [type |-> "group", layout |-> "column", items |-> <<imageA, imageB>>],
        [type |-> "group", layout |-> "column", gap |-> 10,
         items |-> <<[type |-> "group", layout |-> "row", items |-> <<imageB, text>>],
                     imageA>>]}

\* the options generate reads: rotate, gap and layout
GenerateOptions ==
    [rotate : {[js |-> "undefined"]} \cup {[js |-> "number", v |-> d] : d \in Degrees},
     gap : {[js |-> "undefined"], [js |-> "number", v |-> 100], [js |-> "number", v |-> 0],
            [js |-> "array", elems |-> <<[js |-> "number", v |-> 100],
                                         [js |-> "number", v |-> 50]>>]},
     layout : {"repeat", "center", "lt"}]

\* a measured tree, options and the pixel ratio the tree was measured with
DrawerStart ==
    /\ \E r \in {1, 2} :
          \E n \in DrawnNodes :
              \E o \in GenerateOptions :
                  genArgs = [layoutTree |-> Measure(n, [fontSize |-> 0], r),
                             options |-> o, ratio |-> r]
    /\ generated = NotGenerated
    /\ drawerOp = "init"

\* CanvasDrawer.generate(layoutTree, options, ratio), with the loads of the
\* sources in `failing` rejecting
Generate(failing) ==
    /\ drawerOp = "init"
    /\ LET o == genArgs.options
           tree == genArgs.layoutTree
           g == ScaledTileGap(o.gap, genArgs.ratio)
           angle == RotateOrDefault(o.rotate)
           extent == CanvasExtent(tree.renderWidth, tree.renderHeight, angle, o.layout, g)
           drawn == DrawRecursive(tree, 0, failing)
       IN generated' =
              [angle |-> angle,
               canvasW |-> extent.canvasW,
               canvasH |-> extent.canvasH,
               width |-> UnsignedLong(extent.canvasW),
               height |-> UnsignedLong(extent.canvasH),
               depth |-> drawn.depth,
               rejected |-> drawn.rejected,
               size |-> IF drawn.rejected THEN <<>>
                        ELSE <<JsDivide(extent.canvasW, genArgs.ratio),
                               JsDivide(extent.canvasH, genArgs.ratio)>>]
    /\ drawerOp' = "generate"
    /\ UNCHANGED genArgs
    /\ UNCHANGED <<wmVars, soVars, focusVars, layoutVars, loaderVars, guardVars>>

DrawerInit == WmInit /\ SoIdle /\ FocusIdle /\ LayoutIdle /\ LoaderNew /\ DrawerStart /\ GuardIdle

DrawerNext == \E failing \in SUBSET {"a.png", "b.png"} : Generate(failing)

SpecDrawer == DrawerInit /\ [][DrawerNext]_vars

(***************************************************************************)
(* Part VI: properties of the canvas drawer                                *)
(***************************************************************************)
Magnitude(k) == IF k < 0 THEN -k ELSE k

\* |cos a|*W + |sin a|*H and |sin a|*W + |cos a|*H
RotatedBox(a, contentW, contentH) ==
    <<JsPlus(JsTimes(Magnitude(MathCos(a)), contentW),
             JsTimes(Magnitude(MathSin(a)), contentH)),
      JsPlus(JsTimes(Magnitude(MathSin(a)), contentW),
             JsTimes(Magnitude(MathCos(a)), contentH))>>

\* the tile gap of the options, times the pixel ratio: a pair of numbers
\* when a gap is given
GivenTileGap(gap, r) ==
    IF gap.js = "array"
    THEN <<Num(10000 * gap.elems[1].v * r), Num(10000 * gap.elems[2].v * r)>>
    ELSE <<Num(10000 * gap.v * r), Num(10000 * gap.v * r)>>

\* C22: generate() sizes the canvas as the rotated bounding box of the
\* content, the same for the angle and its negative, plus the tile gap times
\* the pixel ratio in layout mode 'repeat' and plus nothing in every other
\* mode (a number in every case); the returned size is the canvas size
\* divided by the pixel ratio.
C22_CanvasIsRotatedBoxPlusGap ==
    drawerOp = "generate" =>
        LET tree == genArgs.layoutTree
            o == genArgs.options
            box == RotatedBox(generated.angle, tree.renderWidth, tree.renderHeight)
            mirrored == RotatedBox(-generated.angle, tree.renderWidth, tree.renderHeight)
        IN /\ box = mirrored
           /\ ~generated.canvasW.nan
           /\ ~generated.canvasH.nan
           /\ o.layout # "repeat"
                 => (generated.canvasW = box[1] /\ generated.canvasH = box[2])
           /\ (o.layout = "repeat" /\ o.gap.js # "undefined")
                 => /\ generated.canvasW = JsPlus(box[1], GivenTileGap(o.gap, genArgs.ratio)[1])
                    /\ generated.canvasH = JsPlus(box[2], GivenTileGap(o.gap, genArgs.ratio)[2])
           /\ ~generated.rejected
                 => /\ Times(genArgs.ratio, generated.size[1]) = generated.canvasW
                    /\ Times(genArgs.ratio, generated.size[2]) = generated.canvasH

\* C26: generate() rotates the content by the rotation the caller passes,
\* for every value including 0 degrees, and by -20 degrees only when no
\* rotation is given.
C26_RotatesByGivenAngle ==
    drawerOp = "generate" =>
        generated.angle = IF genArgs.options.rotate.js = "undefined"
                          THEN -20
                          ELSE genArgs.options.rotate.v

\* C27: when _drawRecursive ends, resolved or rejected, the drawing context's
\* state stack is as deep as when it started: every save was matched by a
\* restore, for every tree and every outcome of the image loads.
C27_SaveRestoreBalanced ==
    drawerOp = "generate" => generated.depth = 0

(***************************************************************************)
(* Part VII: the tamper detection of the two mutation observers: the       *)
(* callback of ObserverGuard.start (core/guard.ts) and the callback of the *)
(* facade's startMonitor (watermark.js/src/index.js), each connected to    *)
(* the container and given the same changes of the document.              *)
(***************************************************************************)
\* the overlay element and another element of the container
Overlay == "overlay"
Other == "other"

\* attributeFilter of the facade's observe() call
AttributeFilter == {"style", "class", "hidden"}

\* changes outside code makes in the container: it removes the overlay or
\* another child, puts the overlay back, sets an attribute of the overlay or
\* of another element, appends a child to the overlay
Changes ==
    {[kind |-> "remove", node |-> n] : n \in {Overlay, Other}}
    \cup {[kind |-> "insert", node |-> Overlay]}
    \cup {[kind |-> "attribute", node |-> Overlay, name |-> a] :
             a \in AttributeFilter \cup {"title"}}
    \cup {[kind |-> "attribute", node |-> Other, name |-> a] : a \in {"style", "title"}}
    \cup {[kind |-> "append", node |-> Overlay]}

\* the MutationRecord of a change: its type, its target, the removed nodes
\* and the attribute name
RecordOf(c) ==
    CASE c.kind = "remove" ->
           [type |-> "childList", target |-> "container", removedNodes |-> {c.node},
            attributeName |-> "null"]
      [] c.kind = "insert" ->
           [type |-> "childList", target |-> "container", removedNodes |-> {},
            attributeName |-> "null"]
      [] c.kind = "attribute" ->
           [type |-> "attributes", target |-> c.node, removedNodes |-> {},
            attributeName |-> c.name]
      [] c.kind = "append" ->
           [type |-> "childList", target |-> c.node, removedNodes |-> {},
            attributeName |-> "null"]

\* observe(container, { childList: true, attributes: true, subtree: true }):
\* the records ObserverGuard's observer queues for a change, none or one
GuardObserves(c) == <<RecordOf(c)>>

\* the same with attributeFilter: ['style', 'class', 'hidden']
FacadeObserves(c) ==
    IF c.kind = "attribute" /\ c.name \notin AttributeFilter THEN <<>> ELSE <<RecordOf(c)>>

\* the records of a queue of changes, in order
RECURSIVE RecordsOf(_)
RecordsOf(q) == IF q = <<>> THEN <<>> ELSE Head(q).records \o RecordsOf(Tail(q))

\* isTampered of ObserverGuard's callback: `found` is the callback's
\* watermarkDom, what container.querySelector('#' + watermarkId) finds when
\* the callback runs
IsTampered(mutations, attached) ==
    LET found == IF attached THEN Overlay ELSE NULL
    IN \E n \in 1..Len(mutations) :
          LET m == mutations[n]
              removed == Overlay \in m.removedNodes
              modified == m.target = found
          IN removed \/ modified

\* the records as the facade's callback reads them: the removed node of a
\* childList record, the target of an attributes record
AsFacadeRecords(mutations) ==
    {[type |-> mutations[n].type,
      node |-> IF mutations[n].type = "attributes" THEN mutations[n].target
               ELSE IF mutations[n].removedNodes = {} THEN NULL
                    ELSE CHOOSE x \in mutations[n].removedNodes : TRUE] :
        n \in 1..Len(mutations)}

\* both observers are connected and the overlay is mounted
GuardStart ==
    /\ overlayIn = TRUE
    /\ guardQueue = <<>>
    /\ facadeQueue = <<>>
    /\ delivery = NoDelivery
    /\ guardOp = "start"

GuardNote(op) ==
    /\ UNCHANGED <<wmVars, soVars, focusVars, layoutVars, loaderVars, drawerVars>>
    /\ guardOp' = op

\* outside code makes the change c; each connected observer queues its record
Change(c) ==
    /\ Len(guardQueue) < MaxBatch
    /\ Len(facadeQueue) < MaxBatch
    /\ c.kind = "insert" => ~overlayIn
    /\ c.node = Overlay /\ c.kind # "insert" => overlayIn
    /\ overlayIn' = IF c.node = Overlay /\ c.kind \in {"remove", "insert"}
                    THEN c.kind = "insert"
                    ELSE overlayIn
    /\ guardQueue' = Append(guardQueue, [change |-> c, records |-> GuardObserves(c)])
    /\ facadeQueue' = Append(facadeQueue, [change |-> c, records |-> FacadeObserves(c)])
    /\ UNCHANGED delivery
    /\ GuardNote("change")

\* the browser runs ObserverGuard's callback on the queued records;
\* onTamper() is called when isTampered
GuardCallback ==
    /\ RecordsOf(guardQueue) # <<>>
    /\ delivery' = [by |-> "guard",
                    batch |-> [n \in 1..Len(guardQueue) |-> guardQueue[n].change],
                    tampered |-> IsTampered(RecordsOf(guardQueue), overlayIn)]
    /\ guardQueue' = <<>>
    /\ UNCHANGED <<overlayIn, facadeQueue>>
    /\ GuardNote("guardCallback")

\* the browser runs the facade's callback on the queued records; the
\* debounced re-render is started when needRender
FacadeCallback ==
    /\ RecordsOf(facadeQueue) # <<>>
    /\ delivery' = [by |-> "facade",
                    batch |-> [n \in 1..Len(facadeQueue) |-> facadeQueue[n].change],
                    tampered |-> NeedRender(AsFacadeRecords(RecordsOf(facadeQueue)), Overlay)]
    /\ facadeQueue' = <<>>
    /\ UNCHANGED <<overlayIn, guardQueue>>
    /\ GuardNote("facadeCallback")

\* changes the facade's observer records nothing of are dropped from its batch
FacadeIgnores ==
    /\ facadeQueue # <<>>
    /\ RecordsOf(facadeQueue) = <<>>
    /\ facadeQueue' = <<>>
    /\ UNCHANGED <<overlayIn, guardQueue, delivery>>
    /\ GuardNote("facadeIgnores")

GuardInit == WmInit /\ SoIdle /\ FocusIdle /\ LayoutIdle /\ LoaderNew /\ DrawerIdle /\ GuardStart

GuardNext ==
    \/ \E c \in Changes : Change(c)
    \/ GuardCallback
    \/ FacadeCallback
    \/ FacadeIgnores

SpecGuard == GuardInit /\ [][GuardNext]_vars

(***************************************************************************)
(* Part VII: properties of the tamper detection                            *)
(***************************************************************************)
\* the change is the removal of the overlay or the change of a tracked
\* attribute of the overlay
IsTamperChange(c) ==
    /\ c.node = Overlay
    /\ \/ c.kind = "remove"
       \/ c.kind = "attribute" /\ c.name \in {"style", "class", "hidden"}

\* C25: a batch of DOM mutations in the container triggers the tamper
\* reaction if and only if it contains the removal of the overlay or a
\* change of a tracked attribute (style, class, hidden) of the overlay.
C25_TamperIffOverlayRemovedOrRestyled ==
    guardOp \in {"guardCallback", "facadeCallback"} =>
        (delivery.tampered
            <=> \E n \in 1..Len(delivery.batch) : IsTamperChange(delivery.batch[n]))

(***************************************************************************)
(* Part I: properties of the watermark facade, continued                   *)
(***************************************************************************)
\* the step is a facade step in which render() ran to its end: an apply()
\* with a mount target, an expired debounce timer, or a resize callback
\* that found no overlay
Rendering ==
    /\ ~thrown'
    /\ \/ lastOp' = "apply" /\ ~errorLogged'
       \/ lastOp' = "timerFire"
       \/ lastOp' = "resizeCallback"
          /\ QuerySelector(dom, container, options.id) = {}

OverlayIds(d) == {n.nid : n \in d}

\* C23: a render of the facade is never detected as tampering. No mutation
\* record of a render's own writes is queued, and a render schedules no
\* timer; records come only from external changes, a timer is started only
\* by a callback that was delivered such a record of the overlay and that
\* uses up the queue, each expired timer is gone, and only apply(), an
\* expired timer and a resize callback add an overlay: so with no external
\* change after the last render no re-render is scheduled, and there are at
\* most as many renders as apply() calls, external changes and resize events.
C23_OwnRenderIsNotTamper ==
    [][/\ Rendering => (moQueue' = {} /\ timers' \subseteq timers)
       /\ ~(moQueue' \subseteq moQueue)
             => lastOp' \in {"externalRemove", "externalStyle"}
       /\ ~(timers' \subseteq timers)
             => /\ lastOp' = "mutationCallback"
                /\ NeedRender(moQueue, watermarkDom)
                /\ moQueue' = {}
                /\ Cardinality(timers' \ timers) = 1
       /\ lastOp' = "timerFire" => Cardinality(timers') = Cardinality(timers) - 1
       /\ ~(OverlayIds(dom') \subseteq OverlayIds(dom))
             => lastOp' \in {"apply", "timerFire", "resizeCallback"}]_vars

\* a tamper re-render that replaced an overlay which outside code had
\* restyled, with the observer connected again and nothing queued
C23_Witness ==
    /\ lastOp = "timerFire"
    /\ ~thrown
    /\ observer # NULL
    /\ observer = container
    /\ moQueue = {}
    /\ timers = {}
    /\ \E n \in dom : n.nid = watermarkDom /\ n.parent = container
    /\ ~destroyed
    /\ ~staleTimer

\* C24: at most one tamper re-render timer is pending at any time. A tamper
\* detection starts a new timer and clears the one that was pending, a
\* callback without a detection leaves the timers alone, and the one pending
\* timer expires once: detections with no expiry between them are followed
\* by one run of the timer's render().
C24_OneDebounceTimer ==
    /\ [](Cardinality(timers) <= 1 /\ timers \subseteq {debounceRender})
    /\ [][/\ (MutationCallback /\ NeedRender(moQueue, watermarkDom))
                => /\ timers' = {debounceRender'}
                   /\ debounceRender' \notin timers
                   /\ clearedTimer' = (timers # {})
          /\ (MutationCallback /\ ~NeedRender(moQueue, watermarkDom))
                => (timers' = timers /\ debounceRender' = debounceRender)
          /\ \A t \in TimerIds :
                TimerFire(t) => (timers = {t} /\ timers' = {})]_vars

\* a detection that arrived while a timer was pending
C24_Witness ==
    /\ lastOp = "mutationCallback"
    /\ clearedTimer
    /\ Cardinality(timers) = 1
    /\ timers = {debounceRender}

\* C28: an apply() that finds no mount target, on an instance that is
\* mounted, leaves the mount container, the overlay and the observers as
\* they were (so that destroy(), a pending re-render and a resize callback
\* run on afterwards without throwing).
C28_FailedApplyKeepsMount ==
    [][\A o \in ApplyArgs :
          (Apply(o) /\ errorLogged' /\ watermarkDom # NoNode)
              => /\ container' = container
                 /\ watermarkDom' = watermarkDom
                 /\ dom' = dom
                 /\ observer' = observer
                 /\ resizeObserver' = resizeObserver]_vars

====
